---- MODULE Spec2Model ----
(***************************************************************************)
(* A model of the EUROCONTROL airway database of thrust                    *)
(* (crates/thrust/src/data/eurocontrol/database.rs): the entity store, the *)
(* point, route and procedure resolvers, the path search and the seven     *)
(* passes of AirwayDatabase::enrich_route.                                 *)
(*                                                                         *)
(* Conventions.  A Rust String is a sequence of one-character strings.     *)
(* Option<T> is a sequence of length 0 (None) or 1 (Some).  A HashMap is   *)
(* the sequence of its values in the order its iterator yields them; that  *)
(* order is arbitrary, so Init draws it from several permutations.  All    *)
(* points lie on one meridian (longitude 0) at whole-degree latitudes, so  *)
(* that the WGS-84 distance between two points grows with the difference   *)
(* of their latitudes.                                                     *)
(***************************************************************************)
EXTENDS Integers, Sequences, FiniteSets, TLC

VARIABLES
    db,         \* the AirwayDatabase (immutable after construction)
    seed,       \* iteration order of the HashMaps a call builds locally
    pc,         \* position of the running call
    elements,   \* enrich_route: the Field15Element tokens
    resolved,   \* enrich_route: Vec<EnrichedCandidates>
    segments,   \* enrich_route: the Vec<ResolvedRouteSegment> returned
    origin,     \* history: index in `resolved` of the candidate that emitted each segment
    query,      \* the call of a resolver operation and its arguments
    answer      \* what that call returned

vars == <<db, seed, pc, elements, resolved, segments, origin, query, answer>>

-----------------------------------------------------------------------------
(* Bounds of the model. *)

MaxTokens == 3

-----------------------------------------------------------------------------
(* Option<T> *)

None == <<>>
Some(x) == <<x>>
IsSome(o) == Len(o) = 1
Unwrap(o) == o[1]

(* Sequence helpers standing for iterator adaptors (map, filter, any). *)
MapSeq(s, F(_)) == [i \in 1..Len(s) |-> F(s[i])]
FilterSeq(s, P(_)) == SelectSeq(s, P)
AnySeq(s, P(_)) == \E i \in 1..Len(s) : P(s[i])
AllSeq(s, P(_)) == \A i \in 1..Len(s) : P(s[i])

RECURSIVE FlattenSeq(_)
FlattenSeq(ss) == IF ss = <<>> THEN <<>> ELSE Head(ss) \o FlattenSeq(Tail(ss))

RECURSIVE SeqsUpTo(_, _)
SeqsUpTo(S, n) ==
    IF n = 0 THEN {<<>>}
    ELSE LET shorter == SeqsUpTo(S, n - 1)
         IN  shorter \cup {Append(s, x) : s \in {t \in shorter : Len(t) = n - 1}, x \in S}

-----------------------------------------------------------------------------
(* Strings: str::trim, str::eq_ignore_ascii_case, char::is_alphabetic. *)

UpperChars == <<"A","B","C","D","E","F","G","H","I","J","K","L","M",
                "N","O","P","Q","R","S","T","U","V","W","X","Y","Z">>
LowerChars == <<"a","b","c","d","e","f","g","h","i","j","k","l","m",
                "n","o","p","q","r","s","t","u","v","w","x","y","z">>

IsUpper(c) == \E i \in 1..Len(UpperChars) : UpperChars[i] = c
IsLower(c) == \E i \in 1..Len(LowerChars) : LowerChars[i] = c
IsAlphabetic(c) == IsUpper(c) \/ IsLower(c)
IsWhitespace(c) == c = " "

ToAsciiLowercase(c) ==
    IF IsUpper(c)
    THEN LowerChars[CHOOSE i \in 1..Len(UpperChars) : UpperChars[i] = c]
    ELSE c

EqIgnoreAsciiCase(a, b) ==
    /\ Len(a) = Len(b)
    /\ \A i \in 1..Len(a) : ToAsciiLowercase(a[i]) = ToAsciiLowercase(b[i])

RECURSIVE TrimStart(_)
TrimStart(s) ==
    IF s # <<>> /\ IsWhitespace(Head(s)) THEN TrimStart(Tail(s)) ELSE s

RECURSIVE TrimEnd(_)
TrimEnd(s) ==
    IF s # <<>> /\ IsWhitespace(s[Len(s)]) THEN TrimEnd(SubSeq(s, 1, Len(s) - 1)) ELSE s

Trim(s) == TrimEnd(TrimStart(s))

StartsWith(s, p) == Len(p) <= Len(s) /\ SubSeq(s, 1, Len(p)) = p

-----------------------------------------------------------------------------
(* PointReference (aixm/route_segment.rs) and ResolvedPoint. *)

RefNavaid(id) == [tag |-> "Navaid", id |-> id]
RefDesignatedPoint(id) == [tag |-> "DesignatedPoint", id |-> id]
RefAirportHeliport(id) == [tag |-> "AirportHeliport", id |-> id]
RefNone == [tag |-> "None"]

RefName(r) == IF r.tag = "None" THEN "" ELSE r.id
IsAirportHeliport(r) == r.tag = "AirportHeliport"

PointNone == [kind |-> "None"]
PointCoordinates(lat, lon) == [kind |-> "Coordinates", latitude |-> lat, longitude |-> lon]
PointOf(kind, entity) == [kind |-> kind, ent |-> entity]

IsTyped(p) == p.kind \in {"AirportHeliport", "Navaid", "DesignatedPoint"}

Abs(x) == IF x < 0 THEN -x ELSE x

(* Latitudes and longitudes are counted in units of Epsilon / EpsilonParts, *)
(* so that two coordinates can differ by less than f64::EPSILON.            *)
EpsilonParts == 2

PointEq(a, b) ==
    CASE IsTyped(a) /\ a.kind = b.kind -> a.ent.identifier = b.ent.identifier
      [] a.kind = "Coordinates" /\ b.kind = "Coordinates" ->
            /\ Abs(a.latitude - b.latitude) < EpsilonParts
            /\ Abs(a.longitude - b.longitude) < EpsilonParts
      [] a.kind = "None" /\ b.kind = "None" -> TRUE
      [] OTHER -> FALSE

FindById(coll, id) == FilterSeq(coll, LAMBDA e : e.identifier = id)

PointFromDb(ref, d) ==
    CASE ref.tag = "AirportHeliport" ->
            IF FindById(d.airports, ref.id) # <<>>
            THEN PointOf("AirportHeliport", FindById(d.airports, ref.id)[1])
            ELSE PointNone
      [] ref.tag = "Navaid" ->
            IF FindById(d.navaids, ref.id) # <<>>
            THEN PointOf("Navaid", FindById(d.navaids, ref.id)[1])
            ELSE PointNone
      [] ref.tag = "DesignatedPoint" ->
            IF FindById(d.designated_points, ref.id) # <<>>
            THEN PointOf("DesignatedPoint", FindById(d.designated_points, ref.id)[1])
            ELSE PointNone
      [] OTHER -> PointNone

(* A faulty lookup: the stored names are trimmed but compared case-sensitively. *)
PointLookupExactCase(name, d) ==
    LET navs == FilterSeq(d.navaids,
                    LAMBDA n : IsSome(n.name) /\ Trim(Unwrap(n.name)) = name)
        dps  == FilterSeq(d.designated_points, LAMBDA p : Trim(p.designator) = name)
    IN  IF navs # <<>> THEN MapSeq(navs, LAMBDA n : PointOf("Navaid", n))
        ELSE IF dps # <<>> THEN MapSeq(dps, LAMBDA p : PointOf("DesignatedPoint", p))
        ELSE <<>>

(* A faulty lookup: the designated points are returned after the navaids. *)
PointLookupBothKinds(name, d) ==
    LET navs == FilterSeq(d.navaids,
                    LAMBDA n : IsSome(n.name) /\ EqIgnoreAsciiCase(Trim(Unwrap(n.name)), name))
        dps  == FilterSeq(d.designated_points,
                    LAMBDA p : EqIgnoreAsciiCase(Trim(p.designator), name))
    IN  MapSeq(navs, LAMBDA n : PointOf("Navaid", n))
            \o MapSeq(dps, LAMBDA p : PointOf("DesignatedPoint", p))
PointLookup(name, d) ==
    LET navs == FilterSeq(d.navaids,
                    LAMBDA n : IsSome(n.name) /\ EqIgnoreAsciiCase(Trim(Unwrap(n.name)), name))
        dps  == FilterSeq(d.designated_points,
                    LAMBDA p : EqIgnoreAsciiCase(Trim(p.designator), name))
    IN  IF navs # <<>> THEN MapSeq(navs, LAMBDA n : PointOf("Navaid", n))
        ELSE IF dps # <<>> THEN MapSeq(dps, LAMBDA p : PointOf("DesignatedPoint", p))
        ELSE <<>>

-----------------------------------------------------------------------------
(* ResolvedRouteSegment and ResolvedRoute. *)

Segment(start, end, name, altitude, speed) ==
    [start |-> start, end |-> end, name |-> name, altitude |-> altitude, speed |-> speed]

SegmentFromDb(segment, d) ==
    Segment(PointFromDb(segment.start, d), PointFromDb(segment.end, d), None, None, None)

UnwrapOr(o, default) == IF IsSome(o) THEN Unwrap(o) ELSE default

(* A faulty projection: the multiple identifier is appended to the name. *)
RouteFromDbWithMultiple(route, d) ==
    [segments |-> MapSeq(FilterSeq(d.route_segments,
                                   LAMBDA s : s.route_formed = Some(route.identifier)),
                         LAMBDA s : SegmentFromDb(s, d)),
     name |-> UnwrapOr(route.prefix, <<>>) \o UnwrapOr(route.second_letter, <<>>)
                  \o UnwrapOr(route.number, <<>>) \o UnwrapOr(route.multiple_identifier, <<>>)]
RouteFromDb(route, d) ==
    [segments |-> MapSeq(FilterSeq(d.route_segments,
                                   LAMBDA s : s.route_formed = Some(route.identifier)),
                         LAMBDA s : SegmentFromDb(s, d)),
     name |-> UnwrapOr(route.prefix, <<>>) \o UnwrapOr(route.second_letter, <<>>)
                  \o UnwrapOr(route.number, <<>>)]

VALID_ROUTE_PREFIXES ==
    << <<"U","N">>, <<"U","M">>, <<"U","L">>, <<"U","T">>, <<"U","Z">>, <<"U","Y">>,
       <<"U","P">>, <<"U","A">>, <<"U","B">>, <<"U","G">>, <<"U","H">>, <<"U","J">>,
       <<"U","Q">>, <<"U","R">>, <<"U","V">>, <<"U","W">>, <<"L">>, <<"A">>, <<"B">>,
       <<"G">>, <<"H">>, <<"J">>, <<"Q">>, <<"R">>, <<"T">>, <<"V">>, <<"W">>, <<"Y">>,
       <<"Z">>, <<"M">>, <<"N">>, <<"P">> >>

(* The decomposition of a designator into (prefix, second_letter, number, multiple). *)
Decompose(name) ==
    LET last == name[Len(name)]
        multiple == IF IsAlphabetic(last) THEN Some(<<last>>) ELSE None
        rest == IF IsAlphabetic(last) THEN SubSeq(name, 1, Len(name) - 1) ELSE name
    IN  IF StartsWith(rest, <<"U">>) /\ Len(rest) >= 3
        THEN [prefix |-> Some(<<"U">>), second_letter |-> <<rest[2]>>,
              number |-> SubSeq(rest, 3, Len(rest)), multiple |-> multiple]
        ELSE IF Len(rest) >= 2
        THEN [prefix |-> None, second_letter |-> <<rest[1]>>,
              number |-> SubSeq(rest, 2, Len(rest)), multiple |-> multiple]
        ELSE [prefix |-> None, second_letter |-> <<>>, number |-> <<>>,
              multiple |-> multiple]

(* A faulty lookup: a record's multiple identifier is compared only when the *)
(* designator carries one.                                                   *)
RouteLookupLaxMultiple(name, d) ==
    IF AnySeq(VALID_ROUTE_PREFIXES, LAMBDA prefix : StartsWith(name, prefix))
    THEN LET k == Decompose(name)
         IN  MapSeq(FilterSeq(d.routes,
                        LAMBDA route :
                            /\ route.prefix = k.prefix
                            /\ route.second_letter = Some(k.second_letter)
                            /\ route.number = Some(k.number)
                            /\ (IsSome(k.multiple) => route.multiple_identifier = k.multiple)),
                    LAMBDA route : RouteFromDb(route, d))
    ELSE <<>>
RouteLookup(name, d) ==
    IF AnySeq(VALID_ROUTE_PREFIXES, LAMBDA prefix : StartsWith(name, prefix))
    THEN LET k == Decompose(name)
         IN  MapSeq(FilterSeq(d.routes,
                        LAMBDA route :
                            /\ route.prefix = k.prefix
                            /\ route.second_letter = Some(k.second_letter)
                            /\ route.number = Some(k.number)
                            /\ route.multiple_identifier = k.multiple),
                    LAMBDA route : RouteFromDb(route, d))
    ELSE <<>>

RouteContains(route, point) ==
    AnySeq(route.segments, LAMBDA s : PointEq(s.start, point) \/ PointEq(s.end, point))

(* A faulty adjacency list: segments are entered in their stored direction only. *)
RECURSIVE NeighborsForward(_, _, _)
NeighborsForward(segs, point, i) ==
    IF i > Len(segs) THEN <<>>
    ELSE (IF PointEq(segs[i].start, point)
          THEN << [next |-> segs[i].end, idx |-> i, fwd |-> TRUE] >> ELSE <<>>)
         \o NeighborsForward(segs, point, i + 1)
(* between: the adjacency list of a point, in insertion order.  Each entry is *)
(* (next_point, segment_index, is_forward).                                  *)
RECURSIVE Neighbors(_, _, _)
Neighbors(segs, point, i) ==
    IF i > Len(segs) THEN <<>>
    ELSE (IF PointEq(segs[i].start, point)
          THEN << [next |-> segs[i].end, idx |-> i, fwd |-> TRUE] >> ELSE <<>>)
         \o (IF PointEq(segs[i].end, point)
             THEN << [next |-> segs[i].start, idx |-> i, fwd |-> FALSE] >> ELSE <<>>)
         \o Neighbors(segs, point, i + 1)

(* dfs_helper: Some(path) or None, path a sequence of <<segment_idx, is_forward>>. *)
RECURSIVE DfsHelper(_, _, _, _, _)
RECURSIVE DfsNeighbors(_, _, _, _, _, _)
DfsHelper(segs, current, target, path, visited) ==
    IF PointEq(current, target) THEN Some(path)
    ELSE DfsNeighbors(segs, Neighbors(segs, current, 1), 1, target, path, visited)

(* A faulty search: visits are recorded per directed edge, not per segment. *)
DfsNeighborsDirected(segs, nbrs, k, target, path, visited) ==
    IF k > Len(nbrs) THEN None
    ELSE IF <<nbrs[k].idx, nbrs[k].fwd>> \in visited
    THEN DfsNeighbors(segs, nbrs, k + 1, target, path, visited)
    ELSE LET result == DfsHelper(segs, nbrs[k].next, target,
                                 Append(path, <<nbrs[k].idx, nbrs[k].fwd>>),
                                 visited \cup {<<nbrs[k].idx, nbrs[k].fwd>>})
         IN  IF IsSome(result) THEN result
             ELSE DfsNeighbors(segs, nbrs, k + 1, target, path, visited)

DfsNeighbors(segs, nbrs, k, target, path, visited) ==
    IF k > Len(nbrs) THEN None
    ELSE IF nbrs[k].idx \in visited
    THEN DfsNeighbors(segs, nbrs, k + 1, target, path, visited)
    ELSE LET result == DfsHelper(segs, nbrs[k].next, target,
                                 Append(path, <<nbrs[k].idx, nbrs[k].fwd>>),
                                 visited \cup {nbrs[k].idx})
         IN  IF IsSome(result) THEN result
             ELSE DfsNeighbors(segs, nbrs, k + 1, target, path, visited)

(* A faulty reification: a backward step keeps the segment as stored. *)
BuildRouteFromPathUnreversed(route, path) ==
    [segments |-> MapSeq(path, LAMBDA step : route.segments[step[1]]),
     name |-> route.name]

BuildRouteFromPath(route, path) ==
    [segments |-> MapSeq(path,
                    LAMBDA step :
                        IF step[2] THEN route.segments[step[1]]
                        ELSE Segment(route.segments[step[1]].end,
                                     route.segments[step[1]].start,
                                     Some(route.name),
                                     route.segments[step[1]].altitude,
                                     route.segments[step[1]].speed)),
     name |-> route.name]

(* Option<ResolvedRoute> *)
Between(route, start, end) ==
    LET path == DfsHelper(route.segments, start, end, <<>>, {})
    IN  IF IsSome(path) THEN Some(BuildRouteFromPath(route, Unwrap(path))) ELSE None

-----------------------------------------------------------------------------
(* Orders used as sort keys: byte order of strings, and the Display and     *)
(* Debug renderings of a ResolvedPoint.                                     *)

AsciiChars == <<" ", "(", "0","1","2","3","4","5","6","7","8","9", ":">>
                  \o UpperChars \o LowerChars

CharRank(c) == CHOOSE i \in 1..Len(AsciiChars) : AsciiChars[i] = c

RECURSIVE StrLess(_, _)
StrLess(a, b) ==
    IF b = <<>> THEN FALSE
    ELSE IF a = <<>> THEN TRUE
    ELSE IF CharRank(Head(a)) # CharRank(Head(b)) THEN CharRank(Head(a)) < CharRank(Head(b))
    ELSE StrLess(Tail(a), Tail(b))

(* Entity identifiers of the model, in the byte order of their text. *)
IdUniverse == <<"a1", "d1", "d2", "g1", "g2", "g3", "g4", "l1", "l2", "l3", "l4", "l5",
                "l6", "n1", "n2", "n3", "n4", "p1", "p2", "p3", "r1", "r2", "r3", "zz">>
IdRank(id) == CHOOSE i \in 1..Len(IdUniverse) : IdUniverse[i] = id

(* impl Display for ResolvedPoint: variant, name and ':' as text, then the  *)
(* coordinates; stored latitudes are single non-negative digits, so their   *)
(* {:.3} renderings are ordered as the numbers are.                         *)
DisplayKey(p) ==
    CASE p.kind = "AirportHeliport" ->
            [text |-> <<"A","i","r","p","o","r","t","(">> \o p.ent.icao \o <<":">>,
             lat |-> p.ent.latitude, lon |-> p.ent.longitude]
      [] p.kind = "Navaid" ->
            [text |-> <<"N","a","v","a","i","d","(">> \o Unwrap(p.ent.name) \o <<":">>,
             lat |-> p.ent.latitude, lon |-> p.ent.longitude]
      [] p.kind = "DesignatedPoint" ->
            [text |-> <<"D","e","s","i","g","n","a","t","e","d","(">>
                          \o p.ent.designator \o <<":">>,
             lat |-> p.ent.latitude, lon |-> p.ent.longitude]
      [] p.kind = "Coordinates" ->
            [text |-> <<"C","o","o","r","d","i","n","a","t","e","s","(">>,
             lat |-> p.latitude, lon |-> p.longitude]
      [] OTHER -> [text |-> <<"N","o","n","e">>, lat |-> 0, lon |-> 0]

DisplayLess(p, q) ==
    LET a == DisplayKey(p)
        b == DisplayKey(q)
    IN  \/ StrLess(a.text, b.text)
        \/ a.text = b.text /\ a.lat < b.lat
        \/ a.text = b.text /\ a.lat = b.lat /\ a.lon < b.lon

(* derive(Debug): the variant name, then the entity's fields, identifier first. *)
DebugLess(p, q) ==
    LET rank(k) == CASE k = "AirportHeliport" -> 1 [] k = "Coordinates" -> 2
                     [] k = "DesignatedPoint" -> 3 [] k = "Navaid" -> 4 [] OTHER -> 5
    IN  \/ rank(p.kind) < rank(q.kind)
        \/ /\ p.kind = q.kind
           /\ IsTyped(p)
           /\ IdRank(p.ent.identifier) < IdRank(q.ent.identifier)
        \/ /\ p.kind = "Coordinates" /\ q.kind = "Coordinates"
           /\ \/ p.latitude < q.latitude
              \/ p.latitude = q.latitude /\ p.longitude < q.longitude

(* slice::sort_by_key is stable: an element comes after the smaller ones and *)
(* after the earlier ones of equal key.                                       *)
SortByKey(s, Less(_, _)) ==
    LET rank(i) == Cardinality({j \in 1..Len(s) :
                        \/ Less(s[j], s[i])
                        \/ j < i /\ ~Less(s[i], s[j])}) + 1
    IN  [k \in 1..Len(s) |-> s[CHOOSE i \in 1..Len(s) : rank(i) = k]]

(* Vec::dedup: drops each element equal to the one before it. *)
RECURSIVE Dedup(_)
Dedup(s) ==
    IF Len(s) <= 1 THEN s
    ELSE LET front == Dedup(SubSeq(s, 1, Len(s) - 1))
         IN  IF PointEq(front[Len(front)], s[Len(s)]) THEN front ELSE Append(front, s[Len(s)])

-----------------------------------------------------------------------------
(* order_route_segments *)

(* A faulty removal: the edge taken stays in its bucket. *)
RemoveAtKeeps(s, i) == s
RemoveAt(s, i) == SubSeq(s, 1, i - 1) \o SubSeq(s, i + 1, Len(s))

(* Index of the first remaining edge that leaves `point`, 0 when there is none. *)
FirstEdgeFrom(remaining, point) ==
    IF \E i \in 1..Len(remaining) : PointEq(remaining[i].start, point)
    THEN CHOOSE i \in 1..Len(remaining) :
            /\ PointEq(remaining[i].start, point)
            /\ \A j \in 1..(i - 1) : ~PointEq(remaining[j].start, point)
    ELSE 0

(* walk_from; the state is the edges left in out_map (each bucket in its    *)
(* sorted order) and the output so far.                                     *)
RECURSIVE WalkFrom(_, _)
WalkFrom(current, st) ==
    LET i == FirstEdgeFrom(st.remaining, current)
    IN  IF i = 0 THEN st
        ELSE WalkFrom(st.remaining[i].end,
                      [remaining |-> RemoveAt(st.remaining, i),
                       ordered |-> Append(st.ordered, st.remaining[i])])

RECURSIVE WalkStarts(_, _)
WalkStarts(starts, st) ==
    IF starts = <<>> THEN st ELSE WalkStarts(Tail(starts), WalkFrom(Head(starts), st))

(* The distinct points of a sequence, by first occurrence. *)
RECURSIVE DistinctPoints(_)
DistinctPoints(ps) ==
    IF ps = <<>> THEN <<>>
    ELSE LET front == DistinctPoints(SubSeq(ps, 1, Len(ps) - 1))
         IN  IF AnySeq(front, LAMBDA q : PointEq(q, ps[Len(ps)])) THEN front
             ELSE Append(front, ps[Len(ps)])

RECURSIVE WalkRest(_)
WalkRest(st) ==
    IF st.remaining = <<>> THEN st
    ELSE LET keys == SortByKey(DistinctPoints(MapSeq(st.remaining, LAMBDA e : e.start)),
                               DisplayLess)
         IN  WalkRest(WalkFrom(keys[1], st))

OrderRouteSegments(segs) ==
    LET edges  == SortByKey(segs, LAMBDA e, f : DisplayLess(e.end, f.end))
        starts == SortByKey(
                    FilterSeq(DistinctPoints(MapSeq(segs, LAMBDA e : e.start)),
                              LAMBDA p : ~AnySeq(segs, LAMBDA e : PointEq(e.end, p))),
                    DisplayLess)
    IN  WalkRest(WalkStarts(starts, [remaining |-> edges, ordered |-> <<>>])).ordered

-----------------------------------------------------------------------------
(* Procedure resolver: resolve_sid_routes, resolve_star_routes. *)

ProcedureRoute(proc, legs, owner(_), d) ==
    LET own  == FilterSeq(legs, LAMBDA leg : owner(leg) = Some(proc.identifier))
        good == FilterSeq(own, LAMBDA leg :
                    /\ PointFromDb(leg.start, d).kind # "None"
                    /\ PointFromDb(leg.end, d).kind # "None")
    IN  [segments |-> OrderRouteSegments(
                        MapSeq(good, LAMBDA leg :
                            Segment(PointFromDb(leg.start, d), PointFromDb(leg.end, d),
                                    Some(proc.designator), None, None))),
         name |-> proc.designator]

MatchingProcedures(procs, name) ==
    FilterSeq(procs, LAMBDA p : EqIgnoreAsciiCase(Trim(p.designator), name))

ResolveSidRoutes(name, d) ==
    MapSeq(MatchingProcedures(d.standard_instrument_departures, name),
           LAMBDA sid : ProcedureRoute(sid, d.departure_legs, LAMBDA leg : leg.departure, d))

ResolveStarRoutes(name, d) ==
    MapSeq(MatchingProcedures(d.standard_instrument_arrivals, name),
           LAMBDA star : ProcedureRoute(star, d.arrival_legs, LAMBDA leg : leg.arrival, d))

-----------------------------------------------------------------------------
(* Procedure resolver: resolve_sid_points, resolve_star_points. *)

(* The (start, end) pairs of the legs owned by one of the procedures. *)
ProcedureLegs(procedure_ids, is_departure, d) ==
    IF is_departure
    THEN FilterSeq(d.departure_legs,
            LAMBDA leg : IsSome(leg.departure) /\ Unwrap(leg.departure) \in procedure_ids)
    ELSE FilterSeq(d.arrival_legs,
            LAMBDA leg : IsSome(leg.arrival) /\ Unwrap(leg.arrival) \in procedure_ids)

InDegree(legs, name) == Cardinality({i \in 1..Len(legs) : RefName(legs[i].end) = name})
OutDegree(legs, name) == Cardinality({i \in 1..Len(legs) : RefName(legs[i].start) = name})

(* refs: for each non-empty name the reference inserted last, the start of  *)
(* a leg being inserted before its end.  The map is iterated in the order   *)
(* `sd` gives to its keys.                                                  *)
LegEndpoints(legs) == FlattenSeq(MapSeq(legs, LAMBDA leg : <<leg.start, leg.end>>))

RefsOf(legs, sd) ==
    LET pts  == LegEndpoints(legs)
        keys == FilterSeq(sd, LAMBDA id : AnySeq(pts, LAMBDA r : RefName(r) = id))
    IN  MapSeq(keys, LAMBDA id :
            pts[CHOOSE i \in 1..Len(pts) :
                    /\ RefName(pts[i]) = id
                    /\ \A j \in (i + 1)..Len(pts) : RefName(pts[j]) # id])

ProcedureExitPoints(procedure_ids, is_departure, d, sd) ==
    LET legs == ProcedureLegs(procedure_ids, is_departure, d)
    IN  FilterSeq(RefsOf(legs, sd), LAMBDA r :
            /\ ~IsAirportHeliport(r)
            /\ OutDegree(legs, RefName(r)) = 0
            /\ InDegree(legs, RefName(r)) > 0)

(* A faulty entry-point search: it keeps the points where the graph ends. *)
ProcedureEntryPointsAtEnds(procedure_ids, is_departure, d, sd) ==
    ProcedureExitPoints(procedure_ids, is_departure, d, sd)

ProcedureEntryPoints(procedure_ids, is_departure, d, sd) ==
    LET legs == ProcedureLegs(procedure_ids, is_departure, d)
    IN  FilterSeq(RefsOf(legs, sd), LAMBDA r :
            /\ ~IsAirportHeliport(r)
            /\ InDegree(legs, RefName(r)) = 0
            /\ OutDegree(legs, RefName(r)) > 0)

(* A faulty projection: the points are deduplicated without being sorted. *)
ResolveTerminalPointsUnsorted(points_to_resolve, d) ==
    Dedup(FilterSeq(MapSeq(points_to_resolve, LAMBDA r : PointFromDb(r, d)),
                    LAMBDA p : p.kind # "None"))
ResolveTerminalPoints(points_to_resolve, d) ==
    Dedup(SortByKey(FilterSeq(MapSeq(points_to_resolve, LAMBDA r : PointFromDb(r, d)),
                              LAMBDA p : p.kind # "None"),
                    DebugLess))

(* A faulty fallback: the connecting points are used only without any leg. *)
ResolveSidPointsWithoutLegs(name, d, sd) ==
    LET sids == MatchingProcedures(d.standard_instrument_departures, name)
        sid_ids == {sids[i].identifier : i \in 1..Len(sids)}
        fallback_points == FlattenSeq(MapSeq(sids, LAMBDA sid : sid.connecting_points))
        exit_points == ProcedureExitPoints(sid_ids, TRUE, d, sd)
    IN  ResolveTerminalPoints(IF ProcedureLegs(sid_ids, TRUE, d) = <<>>
                              THEN fallback_points ELSE exit_points, d)

ResolveSidPoints(name, d, sd) ==
    LET sids == MatchingProcedures(d.standard_instrument_departures, name)
        sid_ids == {sids[i].identifier : i \in 1..Len(sids)}
        fallback_points == FlattenSeq(MapSeq(sids, LAMBDA sid : sid.connecting_points))
        exit_points == ProcedureExitPoints(sid_ids, TRUE, d, sd)
    IN  ResolveTerminalPoints(IF exit_points = <<>> THEN fallback_points ELSE exit_points, d)

ResolveStarPoints(name, d, sd) ==
    LET stars == MatchingProcedures(d.standard_instrument_arrivals, name)
        star_ids == {stars[i].identifier : i \in 1..Len(stars)}
        fallback_points == FlattenSeq(MapSeq(stars, LAMBDA star : star.connecting_points))
        entry_points == ProcedureEntryPoints(star_ids, FALSE, d, sd)
    IN  ResolveTerminalPoints(IF entry_points = <<>> THEN fallback_points ELSE entry_points, d)

-----------------------------------------------------------------------------
(* enrich_route: Field15Element tokens and EnrichedCandidates. *)

TokModifier(speed, altitude) == [kind |-> "Modifier", speed |-> speed, altitude |-> altitude]
TokWaypoint(name) == [kind |-> "Waypoint", name |-> name]
TokCoordinates(lat, lon) == [kind |-> "Coordinates", lat |-> lat, lon |-> lon]
TokAirway(name) == [kind |-> "Airway", name |-> name]
TokSid(name) == [kind |-> "Sid", name |-> name]
TokStar(name) == [kind |-> "Star", name |-> name]
TokDirect == [kind |-> "Direct"]
TokNat(name) == [kind |-> "Nat", name |-> name]
TokPts(name) == [kind |-> "Pts", name |-> name]
TokOther == [kind |-> "Other"]

CandPoint(points, altitude, speed) ==
    [kind |-> "Point", points |-> points, altitude |-> altitude, speed |-> speed]
CandPointCoords(point, altitude, speed) ==
    [kind |-> "PointCoords", point |-> point, altitude |-> altitude, speed |-> speed]
CandAirway(routes, name, altitude, speed) ==
    [kind |-> "Airway", routes |-> routes, name |-> name,
     altitude |-> altitude, speed |-> speed]
CandDirect == [kind |-> "Direct"]

(* An airway or procedure connector: Direct when the lookup is empty. *)
ConnectorCandidate(lookup, name, altitude, speed) ==
    IF lookup = <<>> THEN CandDirect ELSE CandAirway(lookup, name, altitude, speed)

(* The candidate a token pushes, given the running altitude and speed. *)
CandidateOf(element, altitude, speed, d) ==
    CASE element.kind = "Waypoint" ->
            CandPoint(PointLookup(element.name, d), altitude, speed)
      [] element.kind = "Coordinates" ->
            CandPointCoords(PointCoordinates(element.lat, element.lon), altitude, speed)
      [] element.kind = "Airway" ->
            ConnectorCandidate(RouteLookup(element.name, d), element.name, altitude, speed)
      [] element.kind = "Sid" ->
            ConnectorCandidate(ResolveSidRoutes(element.name, d), element.name, altitude, speed)
      [] element.kind = "Star" ->
            ConnectorCandidate(ResolveStarRoutes(element.name, d), element.name, altitude, speed)
      [] OTHER -> CandDirect

PushesCandidate(element) == element.kind \notin {"Modifier", "Other"}

(* A faulty first loop: a Modifier overwrites the running altitude and speed *)
(* only where it carries a value.                                           *)
RECURSIVE ResolveCandidatesMerging(_, _, _, _, _)
ResolveCandidatesMerging(elems, i, altitude, speed, d) ==
    IF i > Len(elems) THEN <<>>
    ELSE IF elems[i].kind = "Modifier"
    THEN ResolveCandidatesMerging(elems, i + 1,
            IF IsSome(elems[i].altitude) THEN elems[i].altitude ELSE altitude,
            IF IsSome(elems[i].speed) THEN elems[i].speed ELSE speed, d)
    ELSE IF PushesCandidate(elems[i])
    THEN <<CandidateOf(elems[i], altitude, speed, d)>>
             \o ResolveCandidatesMerging(elems, i + 1, altitude, speed, d)
    ELSE ResolveCandidatesMerging(elems, i + 1, altitude, speed, d)

(* The first loop of enrich_route. *)
RECURSIVE ResolveCandidates(_, _, _, _, _)
ResolveCandidates(elems, i, altitude, speed, d) ==
    IF i > Len(elems) THEN <<>>
    ELSE IF elems[i].kind = "Modifier"
    THEN ResolveCandidates(elems, i + 1, elems[i].altitude, elems[i].speed, d)
    ELSE IF PushesCandidate(elems[i])
    THEN <<CandidateOf(elems[i], altitude, speed, d)>>
             \o ResolveCandidates(elems, i + 1, altitude, speed, d)
    ELSE ResolveCandidates(elems, i + 1, altitude, speed, d)

(* `1..resolved.len() - 1` on an empty vector: the subtraction overflows    *)
(* (debug build) or the range runs to usize::MAX and split_at_mut(1) is out *)
(* of bounds (release build); either way the call panics.                   *)
RangePanics(res) == Len(res) = 0

(* The indices of `for i in 1..resolved.len() - 1`, counted from 1. *)
InnerIndices(res) == 2..(Len(res) - 1)

IsPointAt(res, i) == i \in 1..Len(res) /\ res[i].kind = "Point"
IsAirwayAt(res, i) == i \in 1..Len(res) /\ res[i].kind = "Airway"

(* 1. retain the candidate routes that contain a candidate of each Point neighbour *)
RetainRoutes(routes, points) ==
    FilterSeq(routes, LAMBDA r : AnySeq(points, LAMBDA p : RouteContains(r, p)))

Pass1(res) ==
    [i \in 1..Len(res) |->
        IF i \in InnerIndices(res) /\ res[i].kind = "Airway"
        THEN LET byBefore == IF IsPointAt(res, i - 1)
                             THEN RetainRoutes(res[i].routes, res[i - 1].points)
                             ELSE res[i].routes
                 byAfter  == IF IsPointAt(res, i + 1)
                             THEN RetainRoutes(byBefore, res[i + 1].points)
                             ELSE byBefore
             IN  [res[i] EXCEPT !.routes = byAfter]
        ELSE res[i]]

(* 2. an Airway without candidate routes becomes Direct *)
Pass2(res) ==
    [i \in 1..Len(res) |->
        IF res[i].kind = "Airway" /\ res[i].routes = <<>> THEN CandDirect ELSE res[i]]

(* A faulty pass 3: like pass 1, it leaves the first and the last candidate alone. *)
Pass3InnerOnly(res) ==
    [i \in 1..Len(res) |->
        IF i \in InnerIndices(res) /\ res[i].kind = "Point"
        THEN LET byBefore == IF IsAirwayAt(res, i - 1)
                             THEN FilterSeq(res[i].points, LAMBDA p :
                                    AnySeq(res[i - 1].routes, LAMBDA r : RouteContains(r, p)))
                             ELSE res[i].points
                 byAfter  == IF IsAirwayAt(res, i + 1)
                             THEN FilterSeq(byBefore, LAMBDA p :
                                    AnySeq(res[i + 1].routes, LAMBDA r : RouteContains(r, p)))
                             ELSE byBefore
             IN  [res[i] EXCEPT !.points = byAfter]
        ELSE res[i]]
(* 3. retain the candidate points that lie on a route of each Airway neighbour *)
RetainPoints(points, routes) ==
    FilterSeq(points, LAMBDA p : AnySeq(routes, LAMBDA r : RouteContains(r, p)))

Pass3(res) ==
    [i \in 1..Len(res) |->
        IF res[i].kind = "Point"
        THEN LET byBefore == IF IsAirwayAt(res, i - 1)
                             THEN RetainPoints(res[i].points, res[i - 1].routes)
                             ELSE res[i].points
                 byAfter  == IF IsAirwayAt(res, i + 1)
                             THEN RetainPoints(byBefore, res[i + 1].routes)
                             ELSE byBefore
             IN  [res[i] EXCEPT !.points = byAfter]
        ELSE res[i]]

(* A faulty trim: the route is kept whole even when a path is found. *)
TrimRouteKeepsWhole(route, before, after) == route

(* 4. trim each Airway between the first candidates of its two Point neighbours *)
TrimRoute(route, before, after) ==
    IF IsSome(Between(route, before, after)) THEN Unwrap(Between(route, before, after))
    ELSE route

Pass4(res) ==
    [i \in 1..Len(res) |->
        IF /\ i \in InnerIndices(res)
           /\ res[i].kind = "Airway"
           /\ IsPointAt(res, i - 1) /\ res[i - 1].points # <<>>
           /\ IsPointAt(res, i + 1) /\ res[i + 1].points # <<>>
        THEN [res[i] EXCEPT !.routes =
                MapSeq(res[i].routes,
                       LAMBDA r : TrimRoute(r, res[i - 1].points[1], res[i + 1].points[1]))]
        ELSE res[i]]

(* 5. an Airway all of whose candidate routes are empty becomes Direct *)
Pass5(res) ==
    [i \in 1..Len(res) |->
        IF res[i].kind = "Airway" /\ AllSeq(res[i].routes, LAMBDA r : r.segments = <<>>)
        THEN CandDirect ELSE res[i]]

-----------------------------------------------------------------------------
(* Geodesy on the meridian of the model: From<&ResolvedPoint> for Coor2D,   *)
(* WGS84.distance and WGS84.geodesic_inv.                                   *)

LatitudeOf(p) ==
    CASE IsTyped(p) -> p.ent.latitude
      [] p.kind = "Coordinates" -> p.latitude
      [] OTHER -> 0

Distance(a, b) == Abs(LatitudeOf(a) - LatitudeOf(b))

(* Forward azimuth in half turns: 0 is north (and coincident points), 1 south. *)
Azimuth(a, b) == IF LatitudeOf(b) < LatitudeOf(a) THEN 1 ELSE 0

Max(x, y) == IF x > y THEN x ELSE y

(* score_hybrid, multiplied by 2 * dist(a, b) so that it is a whole number;  *)
(* when a and b coincide the divisor is 1e-9 and the gap ratio outweighs the *)
(* bearing term, which only orders candidates of equal detour.               *)
ScoreHybrid(a, b, x) ==
    LET ab == Distance(a, b)
        detour == Distance(a, x) + Distance(x, b)
        turns == (IF Azimuth(a, x) # Azimuth(a, b) THEN 1 ELSE 0)
                    + (IF Azimuth(x, b) # Azimuth(a, b) THEN 1 ELSE 0)
    IN  IF ab > 0 THEN ab * turns + 2 * Max(detour - ab, 0)
        ELSE 4 * detour + turns

(* The first index whose value is smallest (`if value < best` from index 0). *)
BestIdx(points, Value(_)) ==
    CHOOSE i \in 1..Len(points) :
        /\ \A j \in 1..Len(points) : Value(points[i]) <= Value(points[j])
        /\ \A j \in 1..(i - 1) : Value(points[j]) > Value(points[i])

(* 6. the next definitive point at or after position i *)
RECURSIVE NextDefinitive(_, _)
NextDefinitive(res, i) ==
    IF i > Len(res) THEN None
    ELSE IF res[i].kind = "Point" /\ Len(res[i].points) = 1 THEN Some(res[i].points[1])
    ELSE IF res[i].kind = "PointCoords" THEN Some(res[i].point)
    ELSE NextDefinitive(res, i + 1)

(* A faulty tie-break: with only the last known point, the first candidate is kept. *)
TieBreakKeepsFirst(points, last_known, next_definitive) ==
    IF Len(points) > 1 /\ IsSome(last_known)
    THEN IF IsSome(next_definitive)
         THEN <<points[BestIdx(points, LAMBDA x :
                    ScoreHybrid(Unwrap(last_known), Unwrap(next_definitive), x))]>>
         ELSE <<points[1]>>
    ELSE points
(* The candidate points of position i after the tie-break. *)
TieBreak(points, last_known, next_definitive) ==
    IF Len(points) > 1 /\ IsSome(last_known)
    THEN IF IsSome(next_definitive)
         THEN <<points[BestIdx(points, LAMBDA x :
                    ScoreHybrid(Unwrap(last_known), Unwrap(next_definitive), x))]>>
         ELSE <<points[BestIdx(points, LAMBDA x : Distance(Unwrap(last_known), x))]>>
    ELSE points

(* One iteration of the loop of pass 6 on [res, last_known]. *)
Pass6Step(st, i) ==
    IF st.res[i].kind = "Point"
    THEN LET points == TieBreak(st.res[i].points, st.last_known, NextDefinitive(st.res, i))
         IN  [res |-> [st.res EXCEPT ![i].points = points],
              last_known |-> IF points # <<>> THEN Some(points[1]) ELSE st.last_known]
    ELSE IF st.res[i].kind = "PointCoords"
    THEN [st EXCEPT !.last_known = Some(st.res[i].point)]
    ELSE st

RECURSIVE Pass6Loop(_, _)
Pass6Loop(st, i) ==
    IF i > Len(st.res) THEN st ELSE Pass6Loop(Pass6Step(st, i), i + 1)

Pass6(res) == Pass6Loop([res |-> res, last_known |-> None], 1).res

(* 7. emit the segments; `origin` records the candidate that emitted each.  *)
EmitStep(st, c, k) ==
    CASE c.kind = "Point" /\ c.points # <<>> ->
            IF IsSome(st.previous_point) /\ PointEq(Unwrap(st.previous_point), c.points[1])
            THEN st
            ELSE IF IsSome(st.previous_point)
            THEN [st EXCEPT
                    !.segments = Append(@, Segment(Unwrap(st.previous_point), c.points[1],
                                                   None, c.altitude, c.speed)),
                    !.origin = Append(@, k),
                    !.previous_point = Some(c.points[1])]
            ELSE [st EXCEPT !.previous_point = Some(c.points[1])]
      [] c.kind = "PointCoords" ->
            IF IsSome(st.previous_point)
            THEN [st EXCEPT
                    !.segments = Append(@, Segment(Unwrap(st.previous_point), c.point,
                                                   None, c.altitude, c.speed)),
                    !.origin = Append(@, k),
                    !.previous_point = Some(c.point)]
            ELSE [st EXCEPT !.previous_point = Some(c.point)]
      [] c.kind = "Airway" /\ c.routes # <<>> ->
            LET segs == c.routes[1].segments
            IN  IF segs = <<>>
                THEN [st EXCEPT !.panicked = TRUE]
                ELSE [st EXCEPT
                        !.segments = @ \o MapSeq(segs, LAMBDA g :
                                        Segment(g.start, g.end, Some(c.name),
                                                c.altitude, c.speed)),
                        !.origin = @ \o MapSeq(segs, LAMBDA g : k),
                        !.previous_point = Some(segs[Len(segs)].end)]
      [] OTHER -> st

RECURSIVE EmitLoop(_, _, _)
(* A faulty emission: a Direct candidate forgets the previous point. *)
EmitLoopDirectResets(st, res, k) ==
    IF k > Len(res) \/ st.panicked THEN st
    ELSE IF res[k].kind = "Direct"
    THEN EmitLoop([st EXCEPT !.previous_point = None], res, k + 1)
    ELSE EmitLoop(EmitStep(st, res[k], k), res, k + 1)

EmitLoop(st, res, k) ==
    IF k > Len(res) \/ st.panicked THEN st
    ELSE EmitLoop(EmitStep(st, res[k], k), res, k + 1)

Pass7(res) ==
    EmitLoop([segments |-> <<>>, origin |-> <<>>, previous_point |-> None,
              panicked |-> FALSE], res, 1)

(* enrich_route from tokens to result: the segments returned, or a panic. *)
EnrichRoute(elems, d) ==
    LET cands == ResolveCandidates(elems, 1, None, None, d)
    IN  IF RangePanics(cands)
        THEN [panicked |-> TRUE, segments |-> <<>>]
        ELSE LET out == Pass7(Pass6(Pass5(Pass4(Pass3(Pass2(Pass1(cands)))))))
             IN  [panicked |-> out.panicked,
                  segments |-> IF out.panicked THEN <<>> ELSE out.segments]

-----------------------------------------------------------------------------
(* The stores and the requests of the model. *)

Navaid(id, name, lat) ==
    [identifier |-> id, name |-> name, latitude |-> lat, longitude |-> 0]
DesignatedPoint(id, designator, lat) ==
    [identifier |-> id, designator |-> designator, latitude |-> lat, longitude |-> 0]
AirportHeliport(id, icao, lat) ==
    [identifier |-> id, icao |-> icao, latitude |-> lat, longitude |-> 0]
Route(id, prefix, second_letter, number, multiple_identifier) ==
    [identifier |-> id, prefix |-> prefix, second_letter |-> second_letter,
     number |-> number, multiple_identifier |-> multiple_identifier]
RouteSegment(id, route_formed, start, end) ==
    [identifier |-> id, route_formed |-> route_formed, start |-> start, end |-> end]

EmptyStore ==
    [airports |-> <<>>, navaids |-> <<>>, designated_points |-> <<>>,
     route_segments |-> <<>>, routes |-> <<>>, arrival_legs |-> <<>>,
     departure_legs |-> <<>>, standard_instrument_arrivals |-> <<>>,
     standard_instrument_departures |-> <<>>]

(* The sequences without repetition of at most n elements of S: the orders *)
(* in which a HashMap holding at most n of these values may iterate.       *)
RECURSIVE Arrangements(_, _)
Arrangements(S, n) ==
    IF n = 0 THEN {<<>>}
    ELSE LET shorter == Arrangements(S, n - 1)
         IN  shorter \cup
             UNION {{Append(s, x) : x \in S \ {s[i] : i \in 1..Len(s)}} :
                        s \in {t \in shorter : Len(t) = n - 1}}

Orders(S) == {s \in Arrangements(S, Cardinality(S)) : Len(s) = Cardinality(S)}

AMB == <<"A","M","B">>
FIX == <<"F","I","X">>
BRK == <<"B","R","K">>
UL2 == <<"U","L","2">>

(* Two navaids share the name AMB; two route records share the designator  *)
(* UL2; "zz" identifies no stored entity.                                   *)
NavaidAmb1 == Navaid("n1", Some(AMB), 1)
NavaidAmb2 == Navaid("n2", Some(AMB), 7)
NavaidFix  == Navaid("n3", Some(FIX), 3)
PointBrk   == DesignatedPoint("d1", BRK, 5)

RouteUL2a == Route("r1", Some(<<"U">>), Some(<<"L">>), Some(<<"2">>), None)
RouteUL2b == Route("r2", Some(<<"U">>), Some(<<"L">>), Some(<<"2">>), None)

SegG1 == RouteSegment("g1", Some("r1"), RefNavaid("n1"), RefNavaid("n3"))
SegG2 == RouteSegment("g2", Some("r1"), RefNavaid("n3"), RefDesignatedPoint("d1"))
SegG3 == RouteSegment("g3", Some("r1"), RefDesignatedPoint("d1"), RefNavaid("zz"))
SegG4 == RouteSegment("g4", Some("r2"), RefDesignatedPoint("d1"), RefNavaid("n2"))

(* The iteration orders of the navaids and of the route segments of a store. *)
NavaidOrders ==
    { <<NavaidAmb1, NavaidAmb2, NavaidFix>>, <<NavaidAmb2, NavaidFix, NavaidAmb1>> }

SegmentOrders ==
    { <<>>, <<SegG1, SegG2>>, <<SegG2, SegG1>>, <<SegG2, SegG3, SegG1>>,
      <<SegG4>>, <<SegG1, SegG4, SegG2>> }

EnrichStores ==
    { [EmptyStore EXCEPT
          !.navaids = navs,
          !.designated_points = <<PointBrk>>,
          !.routes = <<RouteUL2a, RouteUL2b>>,
          !.route_segments = segs] :
        navs \in NavaidOrders, segs \in SegmentOrders }

F350 == "F350"
F370 == "F370"
N0450 == "N0450"

XXX == <<"X","X","X">>

EnrichTokens ==
    { TokModifier(Some(N0450), Some(F350)),
      TokWaypoint(AMB), TokWaypoint(FIX), TokWaypoint(BRK), TokWaypoint(XXX),
      TokCoordinates(4, 0), TokAirway(UL2), TokDirect }

-----------------------------------------------------------------------------
(* The state machine of enrich_route: a request, then the candidate         *)
(* construction and the seven passes, one step each.                        *)

Idle ==
    /\ pc = "idle"
    /\ elements = <<>> /\ resolved = <<>> /\ segments = <<>> /\ origin = <<>>
    /\ query = <<>> /\ answer = <<>>

Request(tokens, n) ==
    /\ pc = "idle"
    /\ \E elems \in SeqsUpTo(tokens, n) : elements' = elems
    /\ pc' = "candidates"
    /\ UNCHANGED <<db, seed, resolved, segments, origin, query, answer>>

(* The caller takes the result (or catches the panic); the store lives on. *)
Return ==
    /\ pc \in {"done", "panicked"}
    /\ pc' = "idle"
    /\ elements' = <<>> /\ resolved' = <<>> /\ segments' = <<>> /\ origin' = <<>>
    /\ UNCHANGED <<db, seed, query, answer>>

Candidates ==
    /\ pc = "candidates"
    /\ resolved' = ResolveCandidates(elements, 1, None, None, db)
    /\ pc' = "pass1"
    /\ UNCHANGED <<db, seed, elements, segments, origin, query, answer>>

AirwayPrune ==
    /\ pc = "pass1"
    /\ IF RangePanics(resolved)
       THEN pc' = "panicked" /\ resolved' = resolved
       ELSE pc' = "pass2" /\ resolved' = Pass1(resolved)
    /\ UNCHANGED <<db, seed, elements, segments, origin, query, answer>>

EmptyAirwayCollapse ==
    /\ pc = "pass2"
    /\ pc' = "pass3"
    /\ resolved' = Pass2(resolved)
    /\ UNCHANGED <<db, seed, elements, segments, origin, query, answer>>

PointPrune ==
    /\ pc = "pass3"
    /\ pc' = "pass4"
    /\ resolved' = Pass3(resolved)
    /\ UNCHANGED <<db, seed, elements, segments, origin, query, answer>>

AirwayTrim ==
    /\ pc = "pass4"
    /\ IF RangePanics(resolved)
       THEN pc' = "panicked" /\ resolved' = resolved
       ELSE pc' = "pass5" /\ resolved' = Pass4(resolved)
    /\ UNCHANGED <<db, seed, elements, segments, origin, query, answer>>

EmptySegmentsCollapse ==
    /\ pc = "pass5"
    /\ pc' = "pass6"
    /\ resolved' = Pass5(resolved)
    /\ UNCHANGED <<db, seed, elements, segments, origin, query, answer>>

TieBreakPoints ==
    /\ pc = "pass6"
    /\ pc' = "pass7"
    /\ resolved' = Pass6(resolved)
    /\ UNCHANGED <<db, seed, elements, segments, origin, query, answer>>

Emit ==
    /\ pc = "pass7"
    /\ LET out == Pass7(resolved)
       IN  IF out.panicked
           THEN pc' = "panicked" /\ segments' = <<>> /\ origin' = <<>>
           ELSE pc' = "done" /\ segments' = out.segments /\ origin' = out.origin
    /\ UNCHANGED <<db, seed, elements, resolved, query, answer>>

Passes ==
    \/ Candidates
    \/ AirwayPrune
    \/ EmptyAirwayCollapse
    \/ PointPrune
    \/ AirwayTrim
    \/ EmptySegmentsCollapse
    \/ TieBreakPoints
    \/ Emit

Init == Idle /\ db \in EnrichStores /\ seed = <<>>
Next == Request(EnrichTokens, MaxTokens) \/ Passes \/ Return
Spec == Init /\ [][Next]_vars

-----------------------------------------------------------------------------
(* Properties of enrich_route. *)

(* The store with every collection iterating in the order of its identifiers. *)
CanonicalStore(d) ==
    [f \in DOMAIN d |->
        SortByKey(d[f], LAMBDA x, y : IdRank(x.identifier) < IdRank(y.identifier))]

Returned == pc = "done"

(* C1: enrich_route is total: whatever the tokens (none at all, or only      *)
(* Modifier and ignored tokens, included) it returns a segment list and      *)
(* never panics.                                                             *)
C1_EnrichTotal == pc # "panicked"

(* C2: in every returned list each segment's end equals the next segment's  *)
(* start, except where a candidate that is Direct lies between the          *)
(* candidates that emitted the two segments.                                *)
C2_Connected ==
    Returned =>
        \A i \in 1..(Len(segments) - 1) :
            \/ PointEq(segments[i].end, segments[i + 1].start)
            \/ \E k \in origin[i]..origin[i + 1] : resolved[k].kind = "Direct"

(* C3: the result depends on the tokens and on the entities of the store    *)
(* only, not on the order in which its hash-keyed collections iterate: it   *)
(* is the result over the same store iterating in identifier order.         *)
C3_Deterministic ==
    pc \in {"done", "panicked"} =>
        [panicked |-> pc = "panicked", segments |-> segments]
            = EnrichRoute(elements, CanonicalStore(db))

-----------------------------------------------------------------------------
(* Altitude and speed: enrich_route over token lists with two Modifiers.    *)

MaxModTokens == 5

ModifierStore ==
    [EmptyStore EXCEPT
        !.navaids = <<NavaidAmb1, NavaidFix>>,
        !.designated_points = <<PointBrk>>,
        !.routes = <<RouteUL2a>>,
        !.route_segments = <<SegG1, SegG2>>]

ModifierTokens ==
    { TokModifier(Some(N0450), Some(F350)), TokModifier(None, Some(F370)),
      TokWaypoint(AMB), TokWaypoint(FIX), TokWaypoint(BRK), TokAirway(UL2) }

InitModifiers == Idle /\ db = ModifierStore /\ seed = <<>>
NextModifiers == Request(ModifierTokens, MaxModTokens) \/ Passes \/ Return
SpecModifiers == InitModifiers /\ [][NextModifiers]_vars

(* The position in the token list of the token that pushed candidate k. *)
TokenOf(elems, k) ==
    CHOOSE t \in 1..Len(elems) :
        /\ PushesCandidate(elems[t])
        /\ Cardinality({u \in 1..t : PushesCandidate(elems[u])}) = k

(* The most recent Modifier at or before position t; one without values when *)
(* no Modifier precedes t.                                                   *)
ModifierInForce(elems, t) ==
    LET ms == {m \in 1..t : elems[m].kind = "Modifier"}
    IN  IF ms = {} THEN TokModifier(None, None)
        ELSE elems[CHOOSE m \in ms : \A n \in ms : n <= m]

(* C4: every returned segment carries the altitude and speed of the most    *)
(* recent Modifier at or before the token that emitted it (both absent when *)
(* none precedes it), and every candidate that holds an altitude and speed  *)
(* holds those of the most recent Modifier before its token.                *)
C4_ModifierInForce ==
    /\ pc \notin {"idle", "candidates"} =>
            \A k \in 1..Len(resolved) :
                resolved[k].kind # "Direct" =>
                    LET m == ModifierInForce(elements, TokenOf(elements, k))
                    IN  resolved[k].altitude = m.altitude /\ resolved[k].speed = m.speed
    /\ Returned =>
            \A i \in 1..Len(segments) :
                LET m == ModifierInForce(elements, TokenOf(elements, origin[i]))
                IN  segments[i].altitude = m.altitude /\ segments[i].speed = m.speed

(* A returned list with a segment under the first Modifier and a later one  *)
(* under the second, whose speed is absent.                                 *)
C4_Witness ==
    /\ Returned
    /\ \E i, j \in 1..Len(segments) :
          /\ i < j
          /\ segments[i].altitude = Some(F350) /\ segments[i].speed = Some(N0450)
          /\ segments[j].altitude = Some(F370) /\ segments[j].speed = None

-----------------------------------------------------------------------------
(* ResolvedPoint::lookup over names with upper case, lower case and blanks. *)

MaxNameLen == 3

NameChars == {"A", "a", "B", " "}
QueryNames == SeqsUpTo(NameChars, MaxNameLen)

NavaidPadded  == Navaid("n1", Some(<<" ", "a", " ">>), 1)
NavaidAB      == Navaid("n2", Some(<<"A", "B">>), 2)
NavaidUnnamed == Navaid("n3", None, 3)
NavaidLowerA  == Navaid("n4", Some(<<"a">>), 7)
PointA        == DesignatedPoint("d1", <<"A">>, 4)
PointAbPadded == DesignatedPoint("d2", <<"a", "b", " ">>, 5)
PointB        == DesignatedPoint("d3", <<"B">>, 6)

LookupStores ==
    { [EmptyStore EXCEPT !.navaids = navs, !.designated_points = dps] :
        navs \in { <<>>, <<NavaidPadded, NavaidAB, NavaidUnnamed>>,
                   <<NavaidUnnamed, NavaidAB>>, <<NavaidAB, NavaidLowerA, NavaidPadded>> },
        dps \in { <<PointA, PointAbPadded, PointB>>, <<PointB, PointAbPadded>> } }

(* A call of ResolvedPoint::lookup(name, db). *)
LookupPoint(names) ==
    /\ pc = "idle"
    /\ \E name \in names :
          /\ query' = <<"lookup", name>>
          /\ answer' = PointLookup(name, db)
    /\ UNCHANGED <<db, seed, pc, elements, resolved, segments, origin>>

InitLookup == Idle /\ db \in LookupStores /\ seed = <<>>
NextLookup == LookupPoint(QueryNames)
SpecLookup == InitLookup /\ [][NextLookup]_vars

Asked(op) == Len(query) > 0 /\ query[1] = op

AllWhitespace(s) == \A i \in 1..Len(s) : IsWhitespace(s[i])
HasLetter(s) == \E i \in 1..Len(s) : IsAlphabetic(s[i])

(* v is n with whitespace added in front or behind and the case of letters changed. *)
PaddedVariant(v, n) ==
    \E i \in 0..Len(v) :
        /\ i + Len(n) <= Len(v)
        /\ AllWhitespace(SubSeq(v, 1, i))
        /\ EqIgnoreAsciiCase(SubSeq(v, i + 1, i + Len(n)), n)
        /\ AllWhitespace(SubSeq(v, i + Len(n) + 1, Len(v)))

PointSet(points) == {points[i] : i \in 1..Len(points)}
PointIds(points) == {points[i].ent.identifier : i \in 1..Len(points)}

(* The store with every stored name and designator trimmed. *)
TrimmedStore(d) ==
    [d EXCEPT
        !.navaids = MapSeq(@, LAMBDA n :
            [n EXCEPT !.name = IF IsSome(@) THEN Some(Trim(Unwrap(@))) ELSE @]),
        !.designated_points = MapSeq(@, LAMBDA p : [p EXCEPT !.designator = Trim(@)])]

(* C5 (as claimed): lookup of a name with whitespace added around it or with *)
(* the ASCII case of its letters changed returns the same set of points as   *)
(* lookup of the name.                                                       *)
C5_WhitespaceAndCase ==
    Asked("lookup") =>
        \A v \in QueryNames :
            PaddedVariant(v, query[2]) => PointSet(PointLookup(v, db)) = PointSet(answer)

(* C5 (amended): lookup is insensitive to the ASCII case of the queried name *)
(* and to whitespace around the names the store holds; the queried name is   *)
(* not trimmed, and a name with leading or trailing whitespace finds nothing. *)
C5_CaseAndStoredPadding ==
    Asked("lookup") =>
        /\ \A v \in QueryNames :
              EqIgnoreAsciiCase(v, query[2]) => PointLookup(v, db) = answer
        /\ PointIds(answer) = PointIds(PointLookup(query[2], TrimmedStore(db)))
        /\ query[2] # Trim(query[2]) => answer = <<>>

(* A lookup of a name with letters that finds a navaid stored with padding. *)
C5_Witness ==
    /\ Asked("lookup")
    /\ HasLetter(query[2])
    /\ \E i \in 1..Len(answer) :
          /\ answer[i].kind = "Navaid"
          /\ Unwrap(answer[i].ent.name) # Trim(Unwrap(answer[i].ent.name))
          /\ ~EqIgnoreAsciiCase(Unwrap(answer[i].ent.name), query[2])

-----------------------------------------------------------------------------
(* ResolvedRoute::between over the routes a store can hold for one record:   *)
(* chains, a cycle, two segments joining the same points in opposite         *)
(* directions, and segments with an end the store does not resolve.          *)

MaxRouteSegments == 3

SegB1 == RouteSegment("g1", Some("r1"), RefNavaid("n1"), RefNavaid("n3"))
SegB2 == RouteSegment("g2", Some("r1"), RefNavaid("n3"), RefDesignatedPoint("d1"))
SegB3 == RouteSegment("g3", Some("r1"), RefDesignatedPoint("d1"), RefNavaid("n1"))
SegB4 == RouteSegment("g4", Some("r1"), RefNavaid("n3"), RefNavaid("n1"))
SegB5 == RouteSegment("l1", Some("r1"), RefDesignatedPoint("d1"), RefNavaid("zz"))
SegB6 == RouteSegment("l2", Some("r1"), RefNone, RefNavaid("n2"))

BetweenStores ==
    { [EmptyStore EXCEPT
          !.navaids = <<NavaidAmb1, NavaidAmb2, NavaidFix>>,
          !.designated_points = <<PointBrk>>,
          !.routes = <<RouteUL2a>>,
          !.route_segments = segs] :
        segs \in Arrangements({SegB1, SegB2, SegB3, SegB4, SegB5, SegB6}, MaxRouteSegments) }

BetweenPoints(d) ==
    { PointFromDb(ref, d) :
        ref \in {RefNavaid("n1"), RefNavaid("n2"), RefNavaid("n3"),
                 RefDesignatedPoint("d1"), RefNone} }

(* A call of route.between(start, end) on the route of the store's record. *)
BetweenCall ==
    /\ pc = "idle"
    /\ \E start \in BetweenPoints(db), end \in BetweenPoints(db) :
          LET route == RouteFromDb(db.routes[1], db)
          IN  /\ query' = <<"between", route, start, end>>
              /\ answer' = Between(route, start, end)
    /\ UNCHANGED <<db, seed, pc, elements, resolved, segments, origin>>

InitBetween == Idle /\ db \in BetweenStores /\ seed = <<>>
NextBetween == BetweenCall
SpecBetween == InitBetween /\ [][NextBetween]_vars

(* The start/end-reversed copy of a segment of `route`, as between builds it. *)
ReversedCopy(route, seg) ==
    Segment(seg.end, seg.start, Some(route.name), seg.altitude, seg.speed)

Answered(op) == Asked(op) /\ IsSome(answer)

(* C6: the segments of a route returned by between are copies or reversed    *)
(* copies of segments of the route, and no segment of the route is used      *)
(* twice: some one-to-one map sends each returned segment to a segment of    *)
(* the route of which it is the copy or the reversed copy.                   *)
C6_CopiesUsedOnce ==
    Answered("between") =>
        LET route == query[2]
            out == Unwrap(answer).segments
        IN  \E f \in [1..Len(out) -> 1..Len(route.segments)] :
                /\ \A i, j \in 1..Len(out) : i # j => f[i] # f[j]
                /\ \A i \in 1..Len(out) :
                      \/ out[i] = route.segments[f[i]]
                      \/ out[i] = ReversedCopy(route, route.segments[f[i]])

(* A returned route of two segments or more, one kept and one reversed,     *)
(* shorter than the route searched.                                         *)
C6_Witness ==
    /\ Answered("between")
    /\ LET route == query[2]
           out == Unwrap(answer).segments
       IN  /\ Len(out) >= 2
           /\ Len(out) < Len(route.segments)
           /\ \E i \in 1..Len(out) : out[i].name = None
           /\ \E i \in 1..Len(out) : out[i].name = Some(route.name)

(* C7 (as claimed): for s and t appearing in the route, a returned route    *)
(* has a first segment, which starts at s, and a last one, which ends at t. *)
C7_Endpoints ==
    (Answered("between") /\ RouteContains(query[2], query[3]) /\ RouteContains(query[2], query[4])) =>
        LET out == Unwrap(answer).segments
        IN  /\ Len(out) > 0
            /\ PointEq(out[1].start, query[3])
            /\ PointEq(out[Len(out)].end, query[4])

(* C7 (amended): for s # t a returned route is not empty, its first segment *)
(* starts at s and its last ends at t; between(s, s) returns the route with *)
(* no segment.                                                              *)
C7_EndpointsDistinct ==
    Asked("between") =>
        IF PointEq(query[3], query[4])
        THEN answer = Some([segments |-> <<>>, name |-> query[2].name])
        ELSE IsSome(answer) =>
                LET out == Unwrap(answer).segments
                IN  /\ Len(out) > 0
                    /\ PointEq(out[1].start, query[3])
                    /\ PointEq(out[Len(out)].end, query[4])

(* A returned route between two different points of the route whose first   *)
(* segment is a reversed copy.                                              *)
C7_Witness ==
    /\ Answered("between")
    /\ ~PointEq(query[3], query[4])
    /\ RouteContains(query[2], query[3]) /\ RouteContains(query[2], query[4])
    /\ Len(Unwrap(answer).segments) >= 2
    /\ Unwrap(answer).segments[1].name = Some(query[2].name)

-----------------------------------------------------------------------------
(* resolve_sid_points and resolve_star_points: one SID and one STAR that own *)
(* the same leg graph, drawn from legs that chain, branch, close a cycle,    *)
(* end at an airport or at a point the store does not hold, or belong to     *)
(* another procedure.                                                        *)

MaxLegs == 3

StandardInstrumentDeparture(id, designator, connecting_points) ==
    [identifier |-> id, designator |-> designator, connecting_points |-> connecting_points]
StandardInstrumentArrival(id, designator, connecting_points) ==
    [identifier |-> id, designator |-> designator, connecting_points |-> connecting_points]
DepartureLeg(id, departure, start, end) ==
    [identifier |-> id, departure |-> departure, start |-> start, end |-> end]
ArrivalLeg(id, arrival, start, end) ==
    [identifier |-> id, arrival |-> arrival, start |-> start, end |-> end]

S1B == <<"S", "1", "B">>
K1A == <<"K", "1", "A">>
XHR == <<"X", "H", "R">>
AirportXhr == AirportHeliport("a1", XHR, 0)

PtA == RefNavaid("n1")
PtB == RefNavaid("n3")
PtC == RefDesignatedPoint("d1")
PtD == RefNavaid("n2")

(* Legs as (identifier, owned by the procedure asked for, start, end). *)
LegShapes ==
    { <<"l1", TRUE, PtA, PtB>>, <<"l2", TRUE, PtB, PtC>>, <<"l3", TRUE, PtB, PtD>>,
      <<"l4", TRUE, PtC, PtA>>, <<"l5", TRUE, PtD, RefAirportHeliport("a1")>>,
      <<"l6", TRUE, PtC, RefNavaid("zz")>>, <<"p3", FALSE, PtA, PtC>> }

ConnectingPointLists == { <<>>, <<PtC, RefAirportHeliport("a1"), PtC, PtA>> }

ProcedureStore(shapes, connecting_points) ==
    [EmptyStore EXCEPT
        !.airports = <<AirportXhr>>,
        !.navaids = <<NavaidAmb1, NavaidAmb2, NavaidFix>>,
        !.designated_points = <<PointBrk>>,
        !.standard_instrument_departures =
            << StandardInstrumentDeparture("p2", S1B, connecting_points),
               StandardInstrumentDeparture("r3", XHR, <<PtD>>) >>,
        !.standard_instrument_arrivals =
            << StandardInstrumentArrival("p1", K1A, connecting_points),
               StandardInstrumentArrival("r3", XHR, <<PtD>>) >>,
        !.departure_legs = MapSeq(shapes, LAMBDA g :
            DepartureLeg(g[1], Some(IF g[2] THEN "p2" ELSE "r3"), g[3], g[4])),
        !.arrival_legs = MapSeq(shapes, LAMBDA g :
            ArrivalLeg(g[1], Some(IF g[2] THEN "p1" ELSE "r3"), g[3], g[4]))]

ProcedureStores ==
    { ProcedureStore(shapes, cps) :
        shapes \in Arrangements(LegShapes, MaxLegs), cps \in ConnectingPointLists }

Reverse(s) == [i \in 1..Len(s) |-> s[Len(s) + 1 - i]]

ProcedureNames == { S1B, K1A, <<"k", "1", "a">>, XXX }

ResolveSidPointsCall(names) ==
    /\ pc = "idle"
    /\ \E name \in names :
          /\ query' = <<"resolve_sid_points", name>>
          /\ answer' = ResolveSidPoints(name, db, seed)
    /\ UNCHANGED <<db, seed, pc, elements, resolved, segments, origin>>

ResolveStarPointsCall(names) ==
    /\ pc = "idle"
    /\ \E name \in names :
          /\ query' = <<"resolve_star_points", name>>
          /\ answer' = ResolveStarPoints(name, db, seed)
    /\ UNCHANGED <<db, seed, pc, elements, resolved, segments, origin>>

InitProcedures ==
    Idle /\ db \in ProcedureStores /\ seed \in {IdUniverse, Reverse(IdUniverse)}
NextProcedures ==
    ResolveSidPointsCall(ProcedureNames) \/ ResolveStarPointsCall(ProcedureNames)
SpecProcedures == InitProcedures /\ [][NextProcedures]_vars

(* The procedures the call asked for, the legs they own, and the references *)
(* with a name among the ends of these legs.                                *)
AskedProcedures(is_departure) ==
    MatchingProcedures(IF is_departure THEN db.standard_instrument_departures
                       ELSE db.standard_instrument_arrivals, query[2])

AskedLegs(is_departure) ==
    LET procs == AskedProcedures(is_departure)
    IN  ProcedureLegs({procs[i].identifier : i \in 1..Len(procs)}, is_departure, db)

GraphRefs(legs) ==
    {r \in {legs[i].start : i \in 1..Len(legs)} \cup {legs[i].end : i \in 1..Len(legs)} :
        RefName(r) # ""}

(* The non-airport references where the leg graph ends, and where it starts. *)
GraphEnds(legs) ==
    {r \in GraphRefs(legs) :
        /\ ~IsAirportHeliport(r)
        /\ \A i \in 1..Len(legs) : RefName(legs[i].start) # RefName(r)
        /\ \E i \in 1..Len(legs) : RefName(legs[i].end) = RefName(r)}

GraphStarts(legs) ==
    {r \in GraphRefs(legs) :
        /\ ~IsAirportHeliport(r)
        /\ \A i \in 1..Len(legs) : RefName(legs[i].end) # RefName(r)
        /\ \E i \in 1..Len(legs) : RefName(legs[i].start) = RefName(r)}

ConnectingRefs(is_departure) ==
    LET procs == AskedProcedures(is_departure)
    IN  UNION {{procs[i].connecting_points[j] : j \in 1..Len(procs[i].connecting_points)} :
                  i \in 1..Len(procs)}

(* The points of the store that the references of a set resolve to. *)
ResolvedSet(refs, d) == {PointFromDb(r, d) : r \in refs} \ {PointNone}

LegPairs(legs) == {<<legs[i].start, legs[i].end>> : i \in 1..Len(legs)}

(* C8 (as claimed): for a STAR that owns legs, resolve_star_points returns  *)
(* the resolved non-airport points of its leg graph with out-degree 0 and   *)
(* in-degree > 0; for {A->B, B->C, B->D} these are C and D.                 *)
C8_StarPointsAtEnds ==
    (Asked("resolve_star_points") /\ AskedLegs(FALSE) # <<>>) =>
        PointSet(answer) = ResolvedSet(GraphEnds(AskedLegs(FALSE)), db)

(* C8 (amended): resolve_star_points returns the resolved non-airport       *)
(* points of the leg graph with in-degree 0 and out-degree > 0, or the      *)
(* resolved connecting points when the graph has no such point; for         *)
(* {A->B, B->C, B->D} it returns exactly A.                                 *)
C8_StarPointsAtStarts ==
    Asked("resolve_star_points") =>
        LET legs == AskedLegs(FALSE)
        IN  /\ PointSet(answer) =
                  IF GraphStarts(legs) # {} THEN ResolvedSet(GraphStarts(legs), db)
                  ELSE ResolvedSet(ConnectingRefs(FALSE), db)
            /\ LegPairs(legs) = {<<PtA, PtB>>, <<PtB, PtC>>, <<PtB, PtD>>} =>
                  answer = <<PointOf("Navaid", NavaidAmb1)>>

(* The STAR of the example: legs A->B, B->C, B->D, asked in lower case. *)
C8_Witness ==
    /\ Asked("resolve_star_points")
    /\ query[2] # K1A
    /\ LegPairs(AskedLegs(FALSE)) = {<<PtA, PtB>>, <<PtB, PtC>>, <<PtB, PtD>>}
    /\ answer = <<PointOf("Navaid", NavaidAmb1)>>

-----------------------------------------------------------------------------
(* Connectors: enrich_route over points joined by DCT, NAT, PTS, airways and *)
(* procedures, some known to the store and some not.                         *)

MaxConnectorTokens == 3

UL9 == <<"U", "L", "9">>

ConnectorStore ==
    [ProcedureStore(<< <<"l1", TRUE, PtA, PtB>>, <<"l2", TRUE, PtB, PtC>> >>, <<>>) EXCEPT
        !.routes = <<RouteUL2a>>,
        !.route_segments = <<SegG1, SegG2>>]

ConnectorTokens ==
    { TokWaypoint(AMB), TokWaypoint(FIX), TokWaypoint(<<"f", "i", "x">>), TokWaypoint(BRK),
      TokCoordinates(4, 0), TokCoordinates(5, 0),
      TokDirect, TokNat(<<"A">>), TokPts(<<"A">>),
      TokAirway(UL2), TokAirway(UL9),
      TokSid(S1B), TokSid(XXX), TokStar(K1A), TokStar(XXX) }

InitConnectors == Idle /\ db = ConnectorStore /\ seed = <<>>
NextConnectors == Request(ConnectorTokens, MaxConnectorTokens) \/ Passes \/ Return
SpecConnectors == InitConnectors /\ [][NextConnectors]_vars

(* A coordinate literal, or a waypoint that resolves to exactly one point. *)
IsEndpointToken(element) ==
    \/ element.kind = "Coordinates"
    \/ element.kind = "Waypoint" /\ Len(PointLookup(element.name, db)) = 1

EndpointOf(element) ==
    IF element.kind = "Coordinates" THEN PointCoordinates(element.lat, element.lon)
    ELSE PointLookup(element.name, db)[1]

(* DCT, NAT, PTS, or a designator that matches nothing in the store. *)
IsUnmatchedConnector(element) ==
    \/ element.kind \in {"Direct", "Nat", "Pts"}
    \/ element.kind = "Airway" /\ RouteLookup(element.name, db) = <<>>
    \/ element.kind = "Sid" /\ ResolveSidRoutes(element.name, db) = <<>>
    \/ element.kind = "Star" /\ ResolveStarRoutes(element.name, db) = <<>>

ClaimedTokens ==
    /\ Len(elements) = 3
    /\ IsEndpointToken(elements[1]) /\ IsEndpointToken(elements[3])
    /\ EndpointOf(elements[1]) # EndpointOf(elements[3])
    /\ IsUnmatchedConnector(elements[2])

(* C10: for tokens P1, c, P2, with P1 and P2 different points, each a       *)
(* coordinate literal or a waypoint with exactly one match, and c one of    *)
(* DCT, NAT, PTS or a designator without match, enrich_route returns        *)
(* exactly one segment, from P1 to P2, without name.                        *)
C10_OneDirectSegment ==
    /\ ClaimedTokens => pc # "panicked"
    /\ (Returned /\ ClaimedTokens) =>
          segments = <<Segment(EndpointOf(elements[1]), EndpointOf(elements[3]),
                               None, None, None)>>

(* A waypoint and a coordinate literal joined by an airway the store does   *)
(* not know, returned as one segment.                                       *)
C10_Witness ==
    /\ Returned /\ ClaimedTokens
    /\ elements[1].kind = "Waypoint" /\ elements[3].kind = "Coordinates"
    /\ elements[2].kind = "Airway"
    /\ Len(segments) = 1

-----------------------------------------------------------------------------
(* Airway trim: enrich_route over "Modifier P1 Airway P2", the airway held   *)
(* by one or two route records whose segments chain, run against the         *)
(* direction of flight, or leave a gap.                                      *)

MaxTrimSegments == 3

CDE == <<"C", "D", "E">>
PointCde == DesignatedPoint("d2", CDE, 6)

SegT1 == RouteSegment("g1", Some("r1"), RefNavaid("n3"), RefDesignatedPoint("d1"))
SegT2 == RouteSegment("g2", Some("r1"), RefDesignatedPoint("d1"), RefDesignatedPoint("d2"))
SegT3 == RouteSegment("g3", Some("r1"), RefDesignatedPoint("d2"), RefNavaid("n1"))
SegT4 == RouteSegment("g4", Some("r1"), RefNavaid("n1"), RefNavaid("n3"))
SegT5 == RouteSegment("l1", Some("r2"), RefNavaid("n3"), RefDesignatedPoint("d2"))

TrimStores ==
    { [EmptyStore EXCEPT
          !.navaids = <<NavaidAmb1, NavaidAmb2, NavaidFix>>,
          !.designated_points = <<PointBrk, PointCde>>,
          !.routes = <<RouteUL2a, RouteUL2b>>,
          !.route_segments = segs] :
        segs \in Arrangements({SegT1, SegT2, SegT3, SegT4, SegT5}, MaxTrimSegments) }

TrimWaypoints == { TokWaypoint(AMB), TokWaypoint(FIX), TokWaypoint(BRK), TokWaypoint(CDE) }

TrimRequests ==
    { <<m, p1, a, p2>> :
        m \in { TokModifier(Some(N0450), Some(F350)), TokModifier(None, Some(F370)) },
        p1 \in TrimWaypoints, a \in { TokAirway(UL2), TokAirway(UL9) },
        p2 \in TrimWaypoints }

(* A call of enrich_route with one of the given token lists. *)
RequestRoute(requests) ==
    /\ pc = "idle"
    /\ \E elems \in requests : elements' = elems
    /\ pc' = "candidates"
    /\ UNCHANGED <<db, seed, resolved, segments, origin, query, answer>>

InitTrim == Idle /\ db \in TrimStores /\ seed = <<>>
NextTrim == RequestRoute(TrimRequests) \/ Passes \/ Return
SpecTrim == InitTrim /\ [][NextTrim]_vars

(* The points a set of points reaches over segments taken in either direction. *)
RECURSIVE ReachFrom(_, _)
ReachFrom(segs, pts) ==
    LET more == pts
                \cup {segs[i].end : i \in {j \in 1..Len(segs) :
                                            \E p \in pts : PointEq(segs[j].start, p)}}
                \cup {segs[i].start : i \in {j \in 1..Len(segs) :
                                            \E p \in pts : PointEq(segs[j].end, p)}}
    IN  IF more = pts THEN pts ELSE ReachFrom(segs, more)

Joins(route, s, t) == \E p \in ReachFrom(route.segments, {s}) : PointEq(p, t)

(* Tokens "Modifier P1 Airway P2", P1 and P2 with exactly one match each. *)
TrimShape ==
    /\ Len(elements) = 4
    /\ elements[1].kind = "Modifier"
    /\ elements[2].kind = "Waypoint" /\ Len(PointLookup(elements[2].name, db)) = 1
    /\ elements[3].kind = "Airway"
    /\ elements[4].kind = "Waypoint" /\ Len(PointLookup(elements[4].name, db)) = 1

TrimP1 == PointLookup(elements[2].name, db)[1]
TrimP2 == PointLookup(elements[4].name, db)[1]

(* The route records of the airway that contain both P1 and P2, in stored order. *)
ContainingRoutes ==
    FilterSeq(RouteLookup(elements[3].name, db),
              LAMBDA r : RouteContains(r, TrimP1) /\ RouteContains(r, TrimP2))

TrimClaimed == TrimShape /\ ContainingRoutes # <<>>

(* segs runs from s to t along segments of route, named and flown as asked. *)
AirwayPath(segs, s, t, route, name, modifier) ==
    /\ Len(segs) > 0
    /\ PointEq(segs[1].start, s)
    /\ PointEq(segs[Len(segs)].end, t)
    /\ \A i \in 1..(Len(segs) - 1) : PointEq(segs[i].end, segs[i + 1].start)
    /\ Len(segs) <= Len(route.segments)
    /\ \A i \in 1..Len(segs) :
          /\ segs[i].name = Some(name)
          /\ segs[i].altitude = modifier.altitude
          /\ segs[i].speed = modifier.speed
          /\ \E j \in 1..Len(route.segments) :
                \/ /\ segs[i].start = route.segments[j].start
                   /\ segs[i].end = route.segments[j].end
                \/ /\ segs[i].start = route.segments[j].end
                   /\ segs[i].end = route.segments[j].start

(* The whole route as stored, named and flown as asked, then a segment      *)
(* without name to t when the route does not end there.                     *)
UntrimmedAirway(t, route, name, modifier) ==
    MapSeq(route.segments, LAMBDA g :
        Segment(g.start, g.end, Some(name), modifier.altitude, modifier.speed))
    \o (IF PointEq(route.segments[Len(route.segments)].end, t) THEN <<>>
        ELSE <<Segment(route.segments[Len(route.segments)].end, t, None,
                       modifier.altitude, modifier.speed)>>)

-----------------------------------------------------------------------------
(* ResolvedRoute::lookup over ASCII designators: every string of at most     *)
(* MaxDesignatorLen characters and the designators UN857, N857, N857B, UL2,  *)
(* on stores whose route records differ in one field, present or absent.     *)

MaxDesignatorLen == 4

DesignatorChars == {"U", "N", "8"}

UN857 == <<"U", "N", "8", "5", "7">>
N857  == <<"N", "8", "5", "7">>
N857B == <<"N", "8", "5", "7", "B">>

Designators == SeqsUpTo(DesignatorChars, MaxDesignatorLen) \cup {UN857, N857, N857B, UL2}

RouteUN857   == Route("r1", Some(<<"U">>), Some(<<"N">>), Some(<<"8","5","7">>), None)
RouteUN857x  == Route("r2", Some(<<"U">>), Some(<<"N">>), Some(<<"8","5","7">>), None)
RouteN857    == Route("r3", None, Some(<<"N">>), Some(<<"8","5","7">>), None)
RouteN857B   == Route("r4", None, Some(<<"N">>), Some(<<"8","5","7">>), Some(<<"B">>))
RouteUL2     == Route("r5", Some(<<"U">>), Some(<<"L">>), Some(<<"2">>), None)
RouteUN8     == Route("r6", Some(<<"U">>), Some(<<"N">>), Some(<<"8">>), None)
RouteUN8N    == Route("r7", Some(<<"U">>), Some(<<"N">>), Some(<<"8">>), Some(<<"N">>))
RouteN8      == Route("r8", None, Some(<<"N">>), Some(<<"8">>), None)
RouteN8blank == Route("r9", Some(<<>>), Some(<<"N">>), Some(<<"8">>), None)
RouteN8N     == Route("s1", None, Some(<<"N">>), Some(<<"8">>), Some(<<"N">>))
RouteNoSecond == Route("s2", None, None, Some(<<"8">>), None)
RouteNoNumber == Route("s3", Some(<<"U">>), Some(<<"N">>), None, None)
RouteLetter  == Route("s4", None, Some(<<>>), Some(<<>>), Some(<<"N">>))
RouteU8      == Route("s5", None, Some(<<"U">>), Some(<<"8">>), None)

SegR1 == RouteSegment("g1", Some("r1"), RefNavaid("n1"), RefNavaid("n3"))
SegR2 == RouteSegment("g2", Some("r2"), RefNavaid("n3"), RefDesignatedPoint("d1"))
SegR3 == RouteSegment("g3", Some("r7"), RefDesignatedPoint("d1"), RefNavaid("n2"))
SegR4 == RouteSegment("g4", Some("r8"), RefNavaid("n2"), RefNavaid("n1"))

RouteRecordOrders ==
    { <<RouteUN857, RouteUN857x, RouteN857, RouteN857B, RouteUL2>>,
      <<RouteN857B, RouteUN857x, RouteUL2, RouteUN857>>,
      <<RouteUN8, RouteUN8N, RouteN8, RouteN8blank, RouteN8N, RouteNoSecond, RouteNoNumber,
        RouteLetter, RouteU8>>,
      <<RouteU8, RouteLetter, RouteNoNumber, RouteNoSecond, RouteN8blank, RouteUN8N>>,
      <<>> }

RouteStores ==
    { [EmptyStore EXCEPT
          !.navaids = <<NavaidAmb1, NavaidAmb2, NavaidFix>>,
          !.designated_points = <<PointBrk>>,
          !.routes = routes,
          !.route_segments = <<SegR1, SegR2, SegR3, SegR4>>] :
        routes \in RouteRecordOrders }

(* A call of ResolvedRoute::lookup(name, db). *)
LookupRoute(names) ==
    /\ pc = "idle"
    /\ \E name \in names :
          /\ query' = <<"route_lookup", name>>
          /\ answer' = RouteLookup(name, db)
    /\ UNCHANGED <<db, seed, pc, elements, resolved, segments, origin>>

InitRoutes == Idle /\ db \in RouteStores /\ seed = <<>>
NextRoutes == LookupRoute(Designators)
SpecRoutes == InitRoutes /\ [][NextRoutes]_vars

HasValidPrefix(name) ==
    \E i \in 1..Len(VALID_ROUTE_PREFIXES) : StartsWith(name, VALID_ROUTE_PREFIXES[i])

(* The four fields of a record equal a decomposition, absent fields included. *)
FieldsEqual(route, k) ==
    /\ route.prefix = k.prefix
    /\ route.second_letter = Some(k.second_letter)
    /\ route.number = Some(k.number)
    /\ route.multiple_identifier = k.multiple

Decomposition(prefix, second_letter, number, multiple) ==
    [prefix |-> prefix, second_letter |-> second_letter, number |-> number,
     multiple |-> multiple]

(* The records of the store with the fields of k, in stored order. *)
RecordsWith(k) == FilterSeq(db.routes, LAMBDA route : FieldsEqual(route, k))

(* C12: lookup(name) is empty when name begins with none of the 32 prefixes; *)
(* otherwise it returns one resolved route for each stored record whose      *)
(* prefix, second letter, number and multiple identifier equal those of the  *)
(* decomposition of name, and no other; UN857 decomposes to (U, N, 857, -),  *)
(* N857 to (-, N, 857, -), N857B to (-, N, 857, B), UL2 to (U, L, 2, -).     *)
C12_RouteLookup ==
    /\ Len(VALID_ROUTE_PREFIXES) = 32
    /\ Decompose(UN857) = Decomposition(Some(<<"U">>), <<"N">>, <<"8","5","7">>, None)
    /\ Decompose(N857) = Decomposition(None, <<"N">>, <<"8","5","7">>, None)
    /\ Decompose(N857B) = Decomposition(None, <<"N">>, <<"8","5","7">>, Some(<<"B">>))
    /\ Decompose(UL2) = Decomposition(Some(<<"U">>), <<"L">>, <<"2">>, None)
    /\ Asked("route_lookup") =>
          IF ~HasValidPrefix(query[2]) THEN answer = <<>>
          ELSE LET records == RecordsWith(Decompose(query[2]))
               IN  /\ Len(answer) = Len(records)
                   /\ \A i \in 1..Len(records) : answer[i] = RouteFromDb(records[i], db)
                   /\ query[2] = N857 =>
                         \A i \in 1..Len(records) : records[i].identifier = "r3"
                   /\ query[2] = UN857 =>
                         \A i \in 1..Len(records) : records[i].identifier \in {"r1", "r2"}

(* lookup("UN857") on a store that holds two UN857 records, N857 and N857B: *)
(* the two records come back, each with its own segments.                   *)
C12_Witness ==
    /\ Asked("route_lookup")
    /\ query[2] = UN857
    /\ Len(answer) = 2
    /\ answer[1].segments # answer[2].segments
    /\ \E i \in 1..Len(db.routes) : db.routes[i] = RouteN857B

-----------------------------------------------------------------------------
(* Tie-break: enrich_route over waypoints of which AMB names two navaids,   *)
(* one south and one north of the others, MID lying halfway between them.   *)

MaxTieTokens == 3

MID == <<"M", "I", "D">>
NavaidMid == Navaid("n4", Some(MID), 4)

TieStores ==
    { [EmptyStore EXCEPT
          !.navaids = navs,
          !.designated_points = <<PointBrk>>,
          !.routes = <<RouteUL2a>>,
          !.route_segments = <<SegG1, SegG2>>] :
        navs \in { <<NavaidAmb1, NavaidAmb2, NavaidFix, NavaidMid>>,
                   <<NavaidMid, NavaidAmb2, NavaidFix, NavaidAmb1>> } }

TieTokens ==
    { TokWaypoint(AMB), TokWaypoint(FIX), TokWaypoint(BRK), TokWaypoint(MID),
      TokWaypoint(XXX), TokCoordinates(4, 0), TokAirway(UL2), TokDirect }

InitTie == Idle /\ db \in TieStores /\ seed = <<>>
NextTie == Request(TieTokens, MaxTieTokens) \/ Passes \/ Return
SpecTie == InitTie /\ [][NextTie]_vars

(* Candidate k is a Point with exactly one point, candidate k + 1 a Point    *)
(* with several, and no definitive point stands at or after k + 1.           *)
TieCase(res, k) ==
    /\ k \in 1..(Len(res) - 1)
    /\ res[k].kind = "Point" /\ Len(res[k].points) = 1
    /\ res[k + 1].kind = "Point" /\ Len(res[k + 1].points) > 1
    /\ \A j \in (k + 1)..Len(res) :
          /\ res[j].kind # "PointCoords"
          /\ res[j].kind = "Point" => Len(res[j].points) # 1

(* The earliest of the points at the smallest distance from a. *)
Closest(points, a) ==
    points[CHOOSE i \in 1..Len(points) :
              /\ \A j \in 1..Len(points) : Distance(a, points[i]) <= Distance(a, points[j])
              /\ \A j \in 1..(i - 1) : Distance(a, points[j]) > Distance(a, points[i])]

(* C13: when a candidate with exactly one point is followed by a waypoint    *)
(* with several candidates and no definitive point comes later, pass 6       *)
(* leaves that waypoint the one candidate closest to the first point, the    *)
(* earliest on ties; and the segment emitted between two waypoints left with *)
(* one point each runs from the first point to the second.                   *)
C13_ClosestToLastKnown ==
    /\ [][(pc = "pass6" /\ pc' = "pass7") =>
            \A k \in 1..(Len(resolved) - 1) :
                TieCase(resolved, k) =>
                    resolved'[k + 1].points =
                        <<Closest(resolved[k + 1].points, resolved[k].points[1])>>]_vars
    /\ [](Returned =>
            \A k \in 1..(Len(resolved) - 1) :
                (/\ resolved[k].kind = "Point" /\ Len(resolved[k].points) = 1
                 /\ resolved[k + 1].kind = "Point" /\ Len(resolved[k + 1].points) = 1
                 /\ ~PointEq(resolved[k].points[1], resolved[k + 1].points[1])) =>
                    \E i \in 1..Len(segments) :
                        /\ origin[i] = k + 1
                        /\ segments[i] = Segment(resolved[k].points[1],
                                                 resolved[k + 1].points[1], None,
                                                 resolved[k + 1].altitude,
                                                 resolved[k + 1].speed))

(* "MID AMB" on a store that iterates the northern AMB first: both AMB lie  *)
(* as far from MID, and the segment returned ends at the northern one.      *)
C13_Witness ==
    /\ Returned
    /\ elements = <<TokWaypoint(MID), TokWaypoint(AMB)>>
    /\ PointLookup(AMB, db) = <<PointOf("Navaid", NavaidAmb2), PointOf("Navaid", NavaidAmb1)>>
    /\ Distance(PointOf("Navaid", NavaidMid), PointOf("Navaid", NavaidAmb1))
          = Distance(PointOf("Navaid", NavaidMid), PointOf("Navaid", NavaidAmb2))
    /\ segments = <<Segment(PointOf("Navaid", NavaidMid), PointOf("Navaid", NavaidAmb2),
                            None, None, None)>>

-----------------------------------------------------------------------------
(* Requests that share one store (examples/field15_serve.rs: each request   *)
(* calls enrich_route on the database behind an Arc).  Here pc, elements,   *)
(* resolved, segments and origin hold one value for each request in flight; *)
(* the lookups other threads make meanwhile are recorded in query, answer.  *)

MaxSharedRequests == 2

Requests == 1..MaxSharedRequests

SharedTokenLists ==
    { <<>>, <<TokAirway(UL2)>>, <<TokWaypoint(AMB), TokWaypoint(FIX)>>,
      <<TokModifier(Some(N0450), Some(F350)), TokWaypoint(AMB), TokAirway(UL2),
        TokWaypoint(BRK)>> }

SharedQueries ==
    { <<"lookup", AMB>>, <<"route_lookup", UL2>>, <<"resolve_sid_points", S1B>>,
      <<"resolve_star_points", K1A>>,
      <<"between", RouteFromDb(RouteUL2a, ConnectorStore), PointOf("Navaid", NavaidAmb1),
        PointOf("DesignatedPoint", PointBrk)>> }

(* What a read operation returns on store d. *)
ReadResult(q, d) ==
    CASE q[1] = "lookup" -> PointLookup(q[2], d)
      [] q[1] = "route_lookup" -> RouteLookup(q[2], d)
      [] q[1] = "resolve_sid_points" -> ResolveSidPoints(q[2], d, IdUniverse)
      [] q[1] = "resolve_star_points" -> ResolveStarPoints(q[2], d, IdUniverse)
      [] OTHER -> Between(q[2], q[3], q[4])

(* One step of enrich_route on the locals of a call: its position, its tokens *)
(* and its candidate list; the store is only read.                           *)
PassStep(p, elems, res, d) ==
    LET at(q, r) == [pc |-> q, resolved |-> r, segments |-> <<>>, origin |-> <<>>]
    IN  CASE p = "candidates" -> at("pass1", ResolveCandidates(elems, 1, None, None, d))
          [] p = "pass1" -> IF RangePanics(res) THEN at("panicked", res)
                            ELSE at("pass2", Pass1(res))
          [] p = "pass2" -> at("pass3", Pass2(res))
          [] p = "pass3" -> at("pass4", Pass3(res))
          [] p = "pass4" -> IF RangePanics(res) THEN at("panicked", res)
                            ELSE at("pass5", Pass4(res))
          [] p = "pass5" -> at("pass6", Pass5(res))
          [] p = "pass6" -> at("pass7", Pass6(res))
          [] OTHER -> LET out == Pass7(res)
                      IN  IF out.panicked THEN at("panicked", res)
                          ELSE [pc |-> "done", resolved |-> res,
                                segments |-> out.segments, origin |-> out.origin]

SharedRequest(r) ==
    /\ pc[r] = "idle"
    /\ \E elems \in SharedTokenLists : elements' = [elements EXCEPT ![r] = elems]
    /\ pc' = [pc EXCEPT ![r] = "candidates"]
    /\ UNCHANGED <<db, seed, resolved, segments, origin, query, answer>>

(* A faulty pass: the candidate list is one buffer that all calls write. *)
SharedPassOneBuffer(r) ==
    /\ pc[r] \notin {"idle", "done", "panicked"}
    /\ LET step == PassStep(pc[r], elements[r], resolved[r], db)
       IN  /\ pc' = [pc EXCEPT ![r] = step.pc]
           /\ resolved' = [q \in Requests |-> step.resolved]
           /\ segments' = [segments EXCEPT ![r] = step.segments]
           /\ origin' = [origin EXCEPT ![r] = step.origin]
    /\ UNCHANGED <<db, seed, elements, query, answer>>

SharedPass(r) ==
    /\ pc[r] \notin {"idle", "done", "panicked"}
    /\ LET step == PassStep(pc[r], elements[r], resolved[r], db)
       IN  /\ pc' = [pc EXCEPT ![r] = step.pc]
           /\ resolved' = [resolved EXCEPT ![r] = step.resolved]
           /\ segments' = [segments EXCEPT ![r] = step.segments]
           /\ origin' = [origin EXCEPT ![r] = step.origin]
    /\ UNCHANGED <<db, seed, elements, query, answer>>

SharedReturn(r) ==
    /\ pc[r] \in {"done", "panicked"}
    /\ pc' = [pc EXCEPT ![r] = "idle"]
    /\ elements' = [elements EXCEPT ![r] = <<>>]
    /\ resolved' = [resolved EXCEPT ![r] = <<>>]
    /\ segments' = [segments EXCEPT ![r] = <<>>]
    /\ origin' = [origin EXCEPT ![r] = <<>>]
    /\ UNCHANGED <<db, seed, query, answer>>

(* Another thread runs a lookup, a path search or a procedure resolution. *)
SharedRead ==
    /\ \E q \in SharedQueries :
          /\ query' = q
          /\ answer' = ReadResult(q, db)
    /\ UNCHANGED <<db, seed, pc, elements, resolved, segments, origin>>

InitShared ==
    /\ db = ConnectorStore /\ seed = <<>>
    /\ pc = [r \in Requests |-> "idle"]
    /\ elements = [r \in Requests |-> <<>>]
    /\ resolved = [r \in Requests |-> <<>>]
    /\ segments = [r \in Requests |-> <<>>]
    /\ origin = [r \in Requests |-> <<>>]
    /\ query = <<>> /\ answer = <<>>

NextShared ==
    \/ \E r \in Requests : SharedRequest(r)
    \/ \E r \in Requests : SharedPass(r)
    \/ \E r \in Requests : SharedReturn(r)
    \/ SharedRead

SpecShared == InitShared /\ [][NextShared]_vars

(* C14: no step of a lookup, a path search, a procedure resolution or an    *)
(* enrichment changes the store, and every enrichment request, however its  *)
(* passes interleave with those of the other requests and with the reads,   *)
(* ends with the result enrich_route gives for its tokens when run alone.   *)
C14_SharedStoreUnchanged ==
    /\ [][db' = db]_vars
    /\ [](\A r \in Requests :
            pc[r] \in {"done", "panicked"} =>
                [panicked |-> pc[r] = "panicked", segments |-> segments[r]]
                    = EnrichRoute(elements[r], db))
    /\ [](Len(query) > 0 => answer = ReadResult(query, db))

(* Two requests with different tokens in flight at once, one returned with  *)
(* segments while the other is between two passes, after a read.            *)
C14_Witness ==
    \E r, q \in Requests :
        /\ r # q
        /\ pc[r] = "done" /\ segments[r] # <<>>
        /\ pc[q] \in {"pass2", "pass3", "pass4", "pass5", "pass6"}
        /\ resolved[q] # <<>> /\ resolved[q] # resolved[r]
        /\ Len(query) > 0

-----------------------------------------------------------------------------
(* The lists resolve_sid_points and resolve_star_points return. *)

AskedTerminalPoints == Asked("resolve_sid_points") \/ Asked("resolve_star_points")

(* C15: the list returned by resolve_sid_points or resolve_star_points holds *)
(* no ResolvedPoint::None, is in the order of the points' Debug renderings   *)
(* and holds no two equal points, in whatever order the legs, procedures and *)
(* references of the store iterate.                                          *)
C15_SortedDistinctPoints ==
    AskedTerminalPoints =>
        /\ \A i \in 1..Len(answer) : answer[i].kind # "None"
        /\ \A i, j \in 1..Len(answer) : i < j => ~DebugLess(answer[j], answer[i])
        /\ \A i, j \in 1..Len(answer) : i # j => ~PointEq(answer[i], answer[j])

(* A procedure answered from connecting points that name one point twice,   *)
(* out of order, between an airport and a navaid: three points come back.   *)
C15_Witness ==
    /\ AskedTerminalPoints
    /\ answer = <<PointOf("AirportHeliport", AirportXhr), PointOf("DesignatedPoint", PointBrk),
                  PointOf("Navaid", NavaidAmb1)>>
    /\ \E i \in 1..Len(db.standard_instrument_departures) :
          db.standard_instrument_departures[i].connecting_points
              = <<PtC, RefAirportHeliport("a1"), PtC, PtA>>

-----------------------------------------------------------------------------
(* impl PartialEq and impl Hash for ResolvedPoint, applied to pairs of       *)
(* points: entities of each kind (two of them sharing an identifier across   *)
(* kinds, two being copies of one entity that differ in a field),            *)
(* coordinates less than f64::EPSILON apart, and None.                       *)

MaxCoordinate == 2

(* What the point feeds to the Hasher; equal feeds give equal hashes. *)
PointHash(p) ==
    CASE IsTyped(p) -> <<p.ent.identifier>>
      [] p.kind = "Coordinates" -> <<p.latitude, p.longitude>>
      [] OTHER -> <<0>>

ComparedPoints ==
    { PointOf("Navaid", NavaidAmb1), PointOf("Navaid", NavaidAmb2),
      PointOf("Navaid", Navaid("n1", Some(FIX), 9)),
      PointOf("DesignatedPoint", PointBrk),
      PointOf("DesignatedPoint", DesignatedPoint("n1", AMB, 1)),
      PointOf("AirportHeliport", AirportXhr),
      PointOf("AirportHeliport", AirportHeliport("d1", BRK, 5)),
      PointNone }
    \cup { PointCoordinates(lat, lon) : lat \in 0..MaxCoordinate, lon \in 0..MaxCoordinate }

(* a == b, with the hashes of a and b. *)
ComparePoints(points) ==
    /\ pc = "idle"
    /\ \E a \in points, b \in points :
          /\ query' = <<"eq", a, b>>
          /\ answer' = [eq |-> PointEq(a, b), hash_a |-> PointHash(a), hash_b |-> PointHash(b)]
    /\ UNCHANGED <<db, seed, pc, elements, resolved, segments, origin>>

InitEquality == Idle /\ db = EmptyStore /\ seed = <<>>
NextEquality == ComparePoints(ComparedPoints)
SpecEquality == InitEquality /\ [][NextEquality]_vars

(* C16: two points of the same typed variant are equal exactly when their   *)
(* identifiers are, points of different variants are not equal, two         *)
(* Coordinates are equal only when latitude and longitude are the same      *)
(* values bit for bit, None equals None only, and two equal points have     *)
(* equal hashes.                                                            *)
C16_EqAgreesWithHash ==
    Asked("eq") =>
        LET a == query[2]
            b == query[3]
        IN  /\ (IsTyped(a) /\ a.kind = b.kind) =>
                  (answer.eq <=> a.ent.identifier = b.ent.identifier)
            /\ a.kind # b.kind => ~answer.eq
            /\ (a.kind = "Coordinates" /\ b.kind = "Coordinates" /\ answer.eq) =>
                  (a.latitude = b.latitude /\ a.longitude = b.longitude)
            /\ (a.kind = "None" /\ b.kind = "None") => answer.eq
            /\ answer.eq => answer.hash_a = answer.hash_b

-----------------------------------------------------------------------------
(* Precedence in ResolvedPoint::lookup. *)

(* The stored name, trimmed, is the queried name up to ASCII case. *)
NameMatches(stored, name) == EqIgnoreAsciiCase(Trim(stored), name)

MatchingNavaids(name, d) ==
    {PointOf("Navaid", d.navaids[i]) :
        i \in {j \in 1..Len(d.navaids) :
                  /\ IsSome(d.navaids[j].name)
                  /\ NameMatches(Unwrap(d.navaids[j].name), name)}}

MatchingDesignatedPoints(name, d) ==
    {PointOf("DesignatedPoint", d.designated_points[i]) :
        i \in {j \in 1..Len(d.designated_points) :
                  NameMatches(d.designated_points[j].designator, name)}}

(* C17: lookup returns all the navaids whose name matches, each once, and   *)
(* no designated point, as soon as one navaid matches; the designated       *)
(* points whose designator matches, each once, when no navaid matches; and  *)
(* nothing otherwise.                                                       *)
C17_NavaidsFirst ==
    Asked("lookup") =>
        LET navs == MatchingNavaids(query[2], db)
            dps == MatchingDesignatedPoints(query[2], db)
            expected == IF navs # {} THEN navs ELSE dps
        IN  /\ PointSet(answer) = expected
            /\ Len(answer) = Cardinality(expected)

(* A name that two navaids and a designated point match: the two navaids    *)
(* come back.                                                               *)
C17_Witness ==
    /\ Asked("lookup")
    /\ MatchingNavaids(query[2], db) # {}
    /\ MatchingDesignatedPoints(query[2], db) # {}
    /\ Len(answer) = 2
    /\ \A i \in 1..Len(answer) : answer[i].kind = "Navaid"

-----------------------------------------------------------------------------
(* The name of the routes ResolvedRoute::lookup returns. *)

(* The text of an optional field, empty when the field is absent. *)
FieldText(o) == IF IsSome(o) THEN Unwrap(o) ELSE <<>>

-----------------------------------------------------------------------------
(* The points along the route ResolvedRoute::between returns. *)

(* The start of the first segment, then the end of each segment. *)
PointsAlong(segs) ==
    IF segs = <<>> THEN <<>>
    ELSE <<segs[1].start>> \o MapSeq(segs, LAMBDA g : g.end)

(* C19: the route returned by between is a simple path: no point occurs      *)
(* twice among the start of its first segment and the ends of its segments,  *)
(* also when the segments of the route searched close a cycle or join the    *)
(* same two points twice.                                                    *)
C19_SimplePath ==
    Answered("between") =>
        LET pts == PointsAlong(Unwrap(answer).segments)
        IN  \A i, j \in 1..Len(pts) : i # j => ~PointEq(pts[i], pts[j])

-----------------------------------------------------------------------------
(* The candidate list as pass 1 leaves it. *)

(* Position i holds no Point, or the route contains one of its candidate points. *)
NeighbourOnRoute(res, i, route) ==
    IsPointAt(res, i) => \E k \in 1..Len(res[i].points) : RouteContains(route, res[i].points[k])

(* C20: after pass 1, at every position of the candidate list, the first    *)
(* and the last included, each candidate route of an Airway contains a      *)
(* candidate point of the Point before it, when there is one, and of the    *)
(* Point after it, when there is one.                                       *)
C20_AirwayPrunedEverywhere ==
    pc = "pass2" =>
        \A i \in 1..Len(resolved) :
            resolved[i].kind = "Airway" =>
                \A r \in 1..Len(resolved[i].routes) :
                    /\ NeighbourOnRoute(resolved, i - 1, resolved[i].routes[r])
                    /\ NeighbourOnRoute(resolved, i + 1, resolved[i].routes[r])

-----------------------------------------------------------------------------
(* The candidate list as pass 3 leaves it. *)

(* Position i holds no Airway, or the point lies on one of its candidate routes. *)
OnNeighbourAirway(res, i, p) ==
    IsAirwayAt(res, i) => \E r \in 1..Len(res[i].routes) : RouteContains(res[i].routes[r], p)

(* The indices of the candidate points of position k that lie on the Airway *)
(* before k, when there is one, and on the Airway after k, when there is one. *)
OnAirways(res, k) ==
    {j \in 1..Len(res[k].points) :
        /\ OnNeighbourAirway(res, k - 1, res[k].points[j])
        /\ OnNeighbourAirway(res, k + 1, res[k].points[j])}

HasAirwayNeighbour(res, k) == IsAirwayAt(res, k - 1) \/ IsAirwayAt(res, k + 1)

(* C21: after pass 3 every candidate point of a Point lies on a candidate   *)
(* route of each neighbouring Airway; a waypoint with several candidates of *)
(* which exactly one lies on the neighbouring airways leaves pass 3 with    *)
(* that candidate alone, and passes 4 to 6 leave a Point with one candidate *)
(* as it is (pass 6 scores nothing for it).                                 *)
C21_PointsOnAirways ==
    /\ [](pc = "pass4" =>
            \A k \in 1..Len(resolved) :
                resolved[k].kind = "Point" =>
                    OnAirways(resolved, k) = 1..Len(resolved[k].points))
    /\ [][(pc = "pass3" /\ pc' = "pass4") =>
            \A k \in 1..Len(resolved) :
                (/\ resolved[k].kind = "Point"
                 /\ HasAirwayNeighbour(resolved, k)
                 /\ Len(resolved[k].points) > 1
                 /\ Cardinality(OnAirways(resolved, k)) = 1) =>
                    resolved'[k].points =
                        <<resolved[k].points[CHOOSE j \in OnAirways(resolved, k) : TRUE]>>]_vars
    /\ [][(pc \in {"pass4", "pass5", "pass6"} /\ pc' # "panicked") =>
            \A k \in 1..Len(resolved) :
                (resolved[k].kind = "Point" /\ Len(resolved[k].points) = 1) =>
                    resolved'[k] = resolved[k]]_vars

(* Pass 3 has left one candidate to a waypoint that stands next to an       *)
(* Airway and whose name two stored points bear.                            *)
C21_Witness ==
    /\ pc = "pass4"
    /\ \E k \in 1..Len(resolved) :
          /\ resolved[k].kind = "Point"
          /\ HasAirwayNeighbour(resolved, k)
          /\ Len(resolved[k].points) = 1
          /\ Len(PointLookup(elements[TokenOf(elements, k)].name, db)) = 2
-----------------------------------------------------------------------------
(* The anchor of pass 6. *)

(* The candidates and last_known as the loop of pass 6 holds them when it   *)
(* reaches position i.                                                      *)
RECURSIVE Pass6Before(_, _)
Pass6Before(res, i) ==
    IF i = 1 THEN [res |-> res, last_known |-> None]
    ELSE Pass6Step(Pass6Before(res, i - 1), i - 1)

(* Candidate c stands for one point: a Point with a single candidate, a     *)
(* PointCoords, or an Airway whose first candidate route has segments.      *)
IsDisambiguated(c) ==
    \/ c.kind = "Point" /\ Len(c.points) = 1
    \/ c.kind = "PointCoords"
    \/ c.kind = "Airway" /\ c.routes # <<>> /\ c.routes[1].segments # <<>>

DisambiguatedPoint(c) ==
    CASE c.kind = "Point" -> c.points[1]
      [] c.kind = "PointCoords" -> c.point
      [] c.kind = "Airway" -> c.routes[1].segments[Len(c.routes[1].segments)].end

(* The point of the last disambiguated candidate before position i, if any. *)
MostRecentlyDisambiguated(res, i) ==
    LET js == {j \in 1..(i - 1) : IsDisambiguated(res[j])}
    IN  IF js = {} THEN None
        ELSE Some(DisambiguatedPoint(res[CHOOSE j \in js : \A n \in js : n <= j]))

(* C22: at every position of pass 6, last_known is the most recently        *)
(* disambiguated point before that position: the candidate of a prior Point *)
(* with a single candidate, a prior PointCoords, or the end of the last     *)
(* segment of the first candidate route of a prior Airway.                  *)
C22_LastKnownAnchor ==
    pc = "pass6" =>
        \A i \in 1..Len(resolved) :
            LET st == Pass6Before(resolved, i)
            IN  st.last_known = MostRecentlyDisambiguated(st.res, i)
-----------------------------------------------------------------------------
(* order_route_segments, step by step.  While a call runs, `resolved` holds *)
(* the edges left in out_map (each bucket in its sorted order), `elements`  *)
(* the zero in-degree starts not yet walked, `origin` the current point of  *)
(* walk_from and `segments` the output so far.                              *)

MaxOrderSegments == 3

OrderPointA == PointOf("Navaid", NavaidAmb1)
OrderPointB == PointOf("Navaid", NavaidFix)
OrderPointC == PointOf("DesignatedPoint", PointBrk)
OrderPointD == PointOf("Navaid", NavaidAmb2)

Leg(start, end) == Segment(start, end, Some(S1B), None, None)

(* The cycles A -> B -> A and A -> B -> C -> A, the path A -> B -> C -> D,  *)
(* a leg from A to itself, and two legs out of B and out of C.              *)
OrderLegs ==
    { Leg(OrderPointA, OrderPointB), Leg(OrderPointB, OrderPointA),
      Leg(OrderPointB, OrderPointC), Leg(OrderPointC, OrderPointA),
      Leg(OrderPointA, OrderPointA), Leg(OrderPointC, OrderPointD),
      Leg(OrderPointD, OrderPointA) }

(* A faulty choice of starts: none, so that every walk begins at the       *)
(* earliest point that has an edge.                                         *)
OrderStartsNone(segs) == <<>>

(* The points of in-degree zero, in the order of their Display renderings. *)
OrderStarts(segs) ==
    SortByKey(FilterSeq(DistinctPoints(MapSeq(segs, LAMBDA e : e.start)),
                        LAMBDA p : ~AnySeq(segs, LAMBDA e : PointEq(e.end, p))),
              DisplayLess)

OrderCall(legs, n) ==
    /\ pc = "idle"
    /\ \E segs \in SeqsUpTo(legs, n) :
          /\ query' = <<"order_route_segments", segs>>
          /\ resolved' = SortByKey(segs, LAMBDA e, f : DisplayLess(e.end, f.end))
          /\ elements' = OrderStarts(segs)
    /\ segments' = <<>> /\ origin' = None /\ answer' = <<>>
    /\ pc' = "order_pick"
    /\ UNCHANGED <<db, seed>>

(* `for start in starts`: walk from the next zero in-degree start. *)
PickStart ==
    /\ pc = "order_pick" /\ elements # <<>>
    /\ origin' = Some(Head(elements)) /\ elements' = Tail(elements)
    /\ pc' = "order_walk"
    /\ UNCHANGED <<db, seed, resolved, segments, query, answer>>

(* The closing loop: walk from the earliest point that still has an edge    *)
(* (any of the earliest, should two points render alike).                   *)
PickKey ==
    /\ pc = "order_pick" /\ elements = <<>> /\ resolved # <<>>
    /\ \E p \in {resolved[i].start : i \in 1..Len(resolved)} :
          /\ \A i \in 1..Len(resolved) : ~DisplayLess(resolved[i].start, p)
          /\ origin' = Some(p)
    /\ pc' = "order_walk"
    /\ UNCHANGED <<db, seed, elements, resolved, segments, query, answer>>

(* walk_from: take the first edge left at the current point. *)
WalkEdge ==
    /\ pc = "order_walk"
    /\ LET i == FirstEdgeFrom(resolved, Unwrap(origin))
       IN  /\ i # 0
           /\ segments' = Append(segments, resolved[i])
           /\ origin' = Some(resolved[i].end)
           /\ resolved' = RemoveAt(resolved, i)
    /\ UNCHANGED <<db, seed, pc, elements, query, answer>>

(* walk_from: no edge is left at the current point. *)
WalkEnd ==
    /\ pc = "order_walk"
    /\ FirstEdgeFrom(resolved, Unwrap(origin)) = 0
    /\ origin' = None
    /\ pc' = "order_pick"
    /\ UNCHANGED <<db, seed, elements, resolved, segments, query, answer>>

OrderDone ==
    /\ pc = "order_pick" /\ elements = <<>> /\ resolved = <<>>
    /\ answer' = Some(segments)
    /\ pc' = "ordered"
    /\ UNCHANGED <<db, seed, elements, resolved, segments, origin, query>>

OrderReturn ==
    /\ pc = "ordered"
    /\ pc' = "idle"
    /\ segments' = <<>> /\ query' = <<>> /\ answer' = <<>>
    /\ UNCHANGED <<db, seed, elements, resolved, origin>>

OrderSteps == PickStart \/ PickKey \/ WalkEdge \/ WalkEnd \/ OrderDone

InitOrder == Idle /\ db = EmptyStore /\ seed = <<>>
NextOrder == OrderCall(OrderLegs, MaxOrderSegments) \/ OrderSteps \/ OrderReturn
SpecOrder == InitOrder /\ [][NextOrder]_vars

(* A call, once made, runs on to its return. *)
SpecOrderFair == SpecOrder /\ WF_vars(OrderSteps)

OrderRunning == pc \in {"order_pick", "order_walk"}

(* How many times x occurs in s. *)
Occurrences(s, x) == Cardinality({i \in 1..Len(s) : s[i] = x})

OrderAgrees == pc = "ordered" => Unwrap(answer) = OrderRouteSegments(query[2])

(* The segments are those of one simple directed path, in some order: they  *)
(* can be arranged into a chain that visits no point twice.                 *)
IsSimplePath(segs) ==
    LET n == Len(segs)
    IN  /\ n >= 1
        /\ \E f \in [1..n -> 1..n] :
              /\ \A i, j \in 1..n : i # j => f[i] # f[j]
              /\ \A k \in 1..(n - 1) : PointEq(segs[f[k]].end, segs[f[k + 1]].start)
              /\ \A i, j \in 1..n : i # j => ~PointEq(segs[i].end, segs[j].end)
              /\ \A i \in 1..n : ~PointEq(segs[f[1]].start, segs[i].end)

(* C24: when the segments given to order_route_segments are those of one    *)
(* simple directed path, in any order, the output lists them in path order: *)
(* it starts at the one point that no segment ends at, and every segment    *)
(* ends where the next one starts.                                          *)
C24_PathOrder ==
    (pc = "ordered" /\ IsSimplePath(query[2])) =>
        LET out == Unwrap(answer)
        IN  /\ Len(out) = Len(query[2])
            /\ \A i \in 1..Len(query[2]) : ~PointEq(query[2][i].end, out[1].start)
            /\ \A k \in 1..(Len(out) - 1) : PointEq(out[k].end, out[k + 1].start)
            /\ \A k \in 1..Len(out) : \E i \in 1..Len(query[2]) : out[k] = query[2][i]

(* The path A -> B -> C -> D given last leg first comes back from A to D. *)
C24_Witness ==
    /\ pc = "ordered"
    /\ query[2] = <<Leg(OrderPointC, OrderPointD), Leg(OrderPointB, OrderPointC),
                    Leg(OrderPointA, OrderPointB)>>
    /\ Unwrap(answer) = <<Leg(OrderPointA, OrderPointB), Leg(OrderPointB, OrderPointC),
                          Leg(OrderPointC, OrderPointD)>>
-----------------------------------------------------------------------------
(* order_points_from_legs (examples/standard_instrument_arrival.rs and      *)
(* standard_instrument_departure.rs), step by step.  A leg is a pair        *)
(* <<start, end>> of point references.  While a call runs, `elements` holds *)
(* the queue, `resolved` ordered_names and `origin` the in-degrees; `seen`  *)
(* holds exactly the names of ordered_names.                                *)

MaxKahnLegs == 3

(* Legs over n1, n2, n3 and d1: a diamond n1 -> n2 -> n3 with n1 -> n3, the *)
(* cycle n3 -> d1 -> n3, a leg from n2 to itself, a leg without a start,    *)
(* and a designated point that bears the identifier of navaid n1.           *)
KahnLegs ==
    { <<RefNavaid("n1"), RefNavaid("n3")>>, <<RefNavaid("n1"), RefNavaid("n2")>>,
      <<RefNavaid("n2"), RefNavaid("n3")>>, <<RefNavaid("n3"), RefDesignatedPoint("d1")>>,
      <<RefDesignatedPoint("d1"), RefNavaid("n3")>>, <<RefNavaid("n2"), RefNavaid("n2")>>,
      <<RefNone, RefNavaid("n1")>>, <<RefDesignatedPoint("n1"), RefDesignatedPoint("d1")>> }

(* The legs that are not skipped: both names are non-empty. *)
NamedLegs(legs) ==
    FilterSeq(legs, LAMBDA l : RefName(l[1]) # "" /\ RefName(l[2]) # "")

LegNames(legs) ==
    {RefName(NamedLegs(legs)[i][1]) : i \in 1..Len(NamedLegs(legs))}
        \cup {RefName(NamedLegs(legs)[i][2]) : i \in 1..Len(NamedLegs(legs))}

(* adjacency[node]: the ends of the legs that start at node, in insertion order. *)
Adjacency(legs, node) ==
    MapSeq(FilterSeq(NamedLegs(legs), LAMBDA l : RefName(l[1]) = node),
           LAMBDA l : RefName(l[2]))

LegInDegree(legs) ==
    [name \in LegNames(legs) |->
        Cardinality({i \in 1..Len(NamedLegs(legs)) : RefName(NamedLegs(legs)[i][2]) = name})]

(* The names of a set in the order of String (`sort()`). *)
SortedNames(S) ==
    CHOOSE s \in [1..Cardinality(S) -> S] :
        \A i, j \in 1..Cardinality(S) : i < j => IdRank(s[i]) < IdRank(s[j])

(* refs[name]: the first reference seen with that name, the start of a leg  *)
(* before its end.                                                          *)
FirstRef(legs, name) ==
    LET named == NamedLegs(legs)
        i == CHOOSE k \in 1..Len(named) :
                /\ name \in {RefName(named[k][1]), RefName(named[k][2])}
                /\ \A j \in 1..(k - 1) :
                      name \notin {RefName(named[j][1]), RefName(named[j][2])}
    IN  IF RefName(named[i][1]) = name THEN named[i][1] ELSE named[i][2]

(* A faulty loop over the successors: each is enqueued at once, whatever    *)
(* its in-degree has come down to.                                          *)
RECURSIVE DecrementSuccessorsEager(_, _)
DecrementSuccessorsEager(succs, st) ==
    IF succs = <<>> THEN st
    ELSE LET next == Head(succs)
             v == IF st.indegree[next] = 0 THEN 0 ELSE st.indegree[next] - 1
         IN  DecrementSuccessorsEager(Tail(succs),
                [indegree |-> [st.indegree EXCEPT ![next] = v],
                 queue |-> Append(st.queue, next)])

(* `for next in adjacency[node]`: saturating decrement, enqueue on zero. *)
RECURSIVE DecrementSuccessors(_, _)
DecrementSuccessors(succs, st) ==
    IF succs = <<>> THEN st
    ELSE LET next == Head(succs)
             v == IF st.indegree[next] = 0 THEN 0 ELSE st.indegree[next] - 1
         IN  DecrementSuccessors(Tail(succs),
                [indegree |-> [st.indegree EXCEPT ![next] = v],
                 queue |-> IF v = 0 THEN Append(st.queue, next) ELSE st.queue])

KahnCall(legs, n) ==
    /\ pc = "idle"
    /\ \E ls \in SeqsUpTo(legs, n) :
          /\ query' = <<"order_points_from_legs", ls>>
          /\ origin' = LegInDegree(ls)
          /\ elements' = SortedNames({name \in LegNames(ls) : LegInDegree(ls)[name] = 0})
    /\ resolved' = <<>> /\ answer' = <<>>
    /\ pc' = "kahn"
    /\ UNCHANGED <<db, seed, segments>>

(* `while let Some(node) = queue.pop_front()` *)
KahnPop ==
    /\ pc = "kahn" /\ elements # <<>>
    /\ LET node == Head(elements)
       IN  IF \E i \in 1..Len(resolved) : resolved[i] = node
           THEN elements' = Tail(elements) /\ UNCHANGED <<resolved, origin>>
           ELSE LET st == DecrementSuccessors(Adjacency(query[2], node),
                                              [indegree |-> origin, queue |-> Tail(elements)])
                IN  /\ resolved' = Append(resolved, node)
                    /\ origin' = st.indegree
                    /\ elements' = st.queue
    /\ UNCHANGED <<db, seed, pc, segments, query, answer>>

(* The queue is empty: append the names not seen, sorted, and project. *)
KahnFinish ==
    /\ pc = "kahn" /\ elements = <<>>
    /\ LET remaining == SortedNames(LegNames(query[2])
                                        \ {resolved[i] : i \in 1..Len(resolved)})
       IN  answer' = Some(MapSeq(resolved \o remaining,
                                 LAMBDA name : FirstRef(query[2], name)))
    /\ pc' = "kahn_done"
    /\ UNCHANGED <<db, seed, elements, resolved, segments, origin, query>>

KahnReturn ==
    /\ pc = "kahn_done"
    /\ pc' = "idle"
    /\ resolved' = <<>> /\ origin' = <<>> /\ query' = <<>> /\ answer' = <<>>
    /\ UNCHANGED <<db, seed, elements, segments>>

KahnSteps == KahnPop \/ KahnFinish

InitKahn == Idle /\ db = EmptyStore /\ seed = <<>>
NextKahn == KahnCall(KahnLegs, MaxKahnLegs) \/ KahnSteps \/ KahnReturn
SpecKahn == InitKahn /\ [][NextKahn]_vars

(* A call, once made, runs on to its return. *)
SpecKahnFair == SpecKahn /\ WF_vars(KahnSteps)
KahnRunning == pc = "kahn"

(* Where the point named `name` stands in the output. *)
PlaceOf(out, name) == CHOOSE i \in 1..Len(out) : RefName(out[i]) = name

(* No chain of legs leads from a point back to it: the names can be ranked  *)
(* so that every leg goes up.                                               *)
LegsAcyclic(legs) ==
    LET names == LegNames(legs)
        named == NamedLegs(legs)
    IN  \E rank \in [names -> 1..Cardinality(names)] :
            \A i \in 1..Len(named) : rank[RefName(named[i][1])] < rank[RefName(named[i][2])]

(* C25: order_points_from_legs terminates and returns one reference for     *)
(* every name borne by a leg, each name once; when no chain of legs leads   *)
(* back to its start, the start of every leg stands before its end; and the *)
(* names the traversal did not emit follow those it emitted, in             *)
(* alphabetical order.                                                      *)
C25_KahnOrder ==
    /\ [](pc = "kahn_done" =>
            LET out == Unwrap(answer)
                legs == NamedLegs(query[2])
                emitted == Len(resolved)
            IN  /\ {RefName(out[i]) : i \in 1..Len(out)} = LegNames(query[2])
                /\ Len(out) = Cardinality(LegNames(query[2]))
                /\ \A i \in 1..Len(out) :
                      \E k \in 1..Len(legs) : out[i] \in {legs[k][1], legs[k][2]}
                /\ LegsAcyclic(query[2]) =>
                      \A k \in 1..Len(legs) :
                          PlaceOf(out, RefName(legs[k][1])) < PlaceOf(out, RefName(legs[k][2]))
                /\ \A i \in 1..emitted : RefName(out[i]) = resolved[i]
                /\ \A i, j \in (emitted + 1)..Len(out) :
                      i < j => IdRank(RefName(out[i])) < IdRank(RefName(out[j])))
    /\ (KahnRunning ~> pc = "kahn_done")

(* The diamond n1 -> n3, n1 -> n2, n2 -> n3 comes back as n1, n2, n3. *)
C25_Witness ==
    /\ pc = "kahn_done"
    /\ query[2] = << <<RefNavaid("n1"), RefNavaid("n3")>>,
                     <<RefNavaid("n1"), RefNavaid("n2")>>,
                     <<RefNavaid("n2"), RefNavaid("n3")>> >>
    /\ Unwrap(answer) = <<RefNavaid("n1"), RefNavaid("n2"), RefNavaid("n3")>>

-----------------------------------------------------------------------------
(* C26: between(s, t) returns a route whenever t can be reached from s over *)
(* segments of the route taken in either direction, in whatever order the   *)
(* segments are stored; it returns none only when no such chain exists.     *)
C26_BetweenComplete ==
    Asked("between") =>
        (Joins(query[2], query[3], query[4]) => IsSome(answer))

(* A route is returned although the first segment tried at s leads away     *)
(* from t: the returned route does not use it.                              *)
C26_Witness ==
    /\ Answered("between")
    /\ ~PointEq(query[3], query[4])
    /\ LET nbrs == Neighbors(query[2].segments, query[3], 1)
           out == Unwrap(answer).segments
       IN  /\ Len(nbrs) >= 2
           /\ Len(out) >= 2
           /\ \A i \in 1..Len(out) :
                 /\ out[i] # query[2].segments[nbrs[1].idx]
                 /\ out[i] # ReversedCopy(query[2], query[2].segments[nbrs[1].idx])
           /\ \E i \in 1..Len(out) : out[i].name = Some(query[2].name)
(* C27: in every route returned by between, each segment ends where the     *)
(* next one starts.                                                         *)
C27_BetweenChain ==
    Answered("between") =>
        LET out == Unwrap(answer).segments
        IN  \A k \in 1..(Len(out) - 1) : PointEq(out[k].end, out[k + 1].start)

(* A returned route of three segments, of which one is kept as stored and   *)
(* one is a reversed copy.                                                  *)
C27_Witness ==
    /\ Answered("between")
    /\ LET out == Unwrap(answer).segments
       IN  /\ Len(out) = 3
           /\ \E i \in 1..3 : \E j \in 1..Len(query[2].segments) :
                 out[i] = query[2].segments[j]
           /\ \E i \in 1..3 : \E j \in 1..Len(query[2].segments) :
                 /\ out[i] = ReversedCopy(query[2], query[2].segments[j])
                 /\ out[i] # query[2].segments[j]
                 /\ ~PointEq(out[i].start, out[i].end)
-----------------------------------------------------------------------------
(* C28: a Point candidate that held at least one candidate point after the  *)
(* construction of the candidates (the lookup of its name found one) still  *)
(* holds at least one after pass 3, whatever the tokens.                    *)
C28_WaypointKept ==
    pc = "pass4" =>
        \A k \in 1..Len(resolved) :
            (/\ resolved[k].kind = "Point"
             /\ PointLookup(elements[TokenOf(elements, k)].name, db) # <<>>) =>
                resolved[k].points # <<>>
(* C29: when pass 7 comes to an Airway candidate, the first candidate route *)
(* of that airway has at least one segment, whatever the store holds.       *)
C29_FirstRouteHasSegment ==
    pc = "pass7" =>
        \A k \in 1..Len(resolved) :
            (resolved[k].kind = "Airway" /\ resolved[k].routes # <<>>) =>
                resolved[k].routes[1].segments # <<>>

(* C30: no returned segment starts or ends at ResolvedPoint::None, and no   *)
(* route returned by between passes from one segment to the next through    *)
(* an unresolved end.                                                       *)
C30_NoUnresolvedEnds ==
    /\ Returned =>
          \A i \in 1..Len(segments) :
              segments[i].start.kind # "None" /\ segments[i].end.kind # "None"
    /\ Answered("between") =>
          \A k \in 1..(Len(Unwrap(answer).segments) - 1) :
              Unwrap(answer).segments[k].end.kind # "None"
====
